---------------------------- MODULE Spec2Model ----------------------------
(***************************************************************************)
(* Snowflake identifier generator (github.com/sxyafiq/snowflake).          *)
(*                                                                         *)
(* The generator state machine of snowflake.go, the bit layout descriptor  *)
(* of layout.go, the encodings of id.go and encoding.go and the errors of  *)
(* errors.go.                                                              *)
(* TLC's integers are 32 bits wide, so the                                 *)
(* 64-bit identifier word is modelled at a reduced width: a word has       *)
(* WordBits bits (one sign bit and WordBits - 1 usable bits) and every     *)
(* layout partitions the usable bits.  The arithmetic on words is two's    *)
(* complement at that width, exactly as the int64 arithmetic of the code   *)
(* is at 64.  Durations are counted in microseconds.                       *)
(***************************************************************************)
EXTENDS Integers, Sequences, FiniteSets

(***************************************************************************)
(* Sizes.  The first group bounds the model.  The second group are the     *)
(* program's constants at the reduced word width.                          *)
(***************************************************************************)
MaxEmit == 4
 \* identifiers requested in one behaviour, over all calls

MaxCount == 2
 \* largest count passed to GenerateBatch

MaxClock == 3
 \* the clock reads 0 .. MaxClock milliseconds

WordBits == 7
 \* int64 (64 in the source): sign bit + 6 usable bits (63 in the source)

WorkerIDBits == 1
 \* const WorkerIDBits (10 in the source)

SequenceBits == 2
 \* const SequenceBits (12 in the source)

Millisecond == 1000
 \* time.Millisecond, in microseconds

CoarseUnitMs == 3
 \* the time unit of the 10 ms layouts: not a power of two, so the division path

PollInterval == 2
 \* GenerateBatch polls ctx when i % 100 == 0 (100 in the source)

SleepThresholdUs == 100
 \* waitNextMillisWithContextInternal sleeps only if the wait exceeds 100 microseconds

Epoch == 1
 \* const Epoch, milliseconds (1704067200000 in the source)

MinTimestampBits == 1
 \* BitLayout.Validate: fewest timestamp bits (38 in the source)

MaxTimestampBits == 3
 \* BitLayout.Validate: most timestamp bits (42 in the source)

MinWorkerBits == 1
 \* BitLayout.Validate: fewest worker bits (8 in the source)

MaxWorkerBits == 4
 \* BitLayout.Validate: most worker bits (18 in the source)

MinSequenceBits == 1
 \* BitLayout.Validate: fewest sequence bits (6 in the source)

MaxSequenceBits == 2
 \* BitLayout.Validate: most sequence bits (14 in the source)

MaxBase32Len == 2
 \* const MaxBase32Len: ceil(WordBits / 5) (13 in the source)

MaxBase58Len == 2
 \* const MaxBase58Len: ceil(log58(2^WordBits)) (11 in the source)

MaxBase62Len == 2
 \* const MaxBase62Len: ceil(log62(2^WordBits)) (11 in the source)

MaxHexLen == 2
 \* const MaxHexLen: ceil(WordBits / 4) (16 in the source)

WordBytes == 1
 \* the bytes of ID.IntBytes: ceil(WordBits / 8) (8 in the source)

\* the goroutines calling the generator(s)
Callers == {1, 2}

(***************************************************************************)
(* Integer arithmetic at the width of the word.                            *)
(***************************************************************************)
RECURSIVE Pow2(_)
Pow2(n) == IF n <= 0 THEN 1 ELSE 2 * Pow2(n - 1)

Modulus == Pow2(WordBits)

SignBit == Pow2(WordBits - 1)

\* the two's complement value of x at the width of the word
Wrap(x) == LET m == x % Modulus IN IF m >= SignBit THEN m - Modulus ELSE m

RECURSIVE BitOr(_, _)
BitOr(a, b) ==
    IF a = 0 THEN b
    ELSE IF b = 0 THEN a
    ELSE (IF a % 2 = 1 \/ b % 2 = 1 THEN 1 ELSE 0) + 2 * BitOr(a \div 2, b \div 2)

RECURSIVE BitAnd(_, _)
BitAnd(a, b) ==
    IF a = 0 \/ b = 0 THEN 0
    ELSE (IF a % 2 = 1 /\ b % 2 = 1 THEN 1 ELSE 0) + 2 * BitAnd(a \div 2, b \div 2)

\* a | b, a & b, a << k and a >> k on words
Or64(a, b) == Wrap(BitOr(a % Modulus, b % Modulus))

And64(a, b) == Wrap(BitAnd(a % Modulus, b % Modulus))

Shl(a, k) == Wrap(a * Pow2(k))

Shr(a, k) == a \div Pow2(k)

(***************************************************************************)
(* layout.go: the bit layout descriptor.                                   *)
(***************************************************************************)
BitLayout(t, w, s, unit) ==
    [TimestampBits |-> t, WorkerBits |-> w, SequenceBits |-> s, TimeUnit |-> unit]

\* 41 + 10 + 12, 1 ms in the source
LayoutDefault == BitLayout(3, WorkerIDBits, SequenceBits, Millisecond)

\* 39 + 17 + 7, 1 ms in the source: fewest timestamp bits, most workers
LayoutExtreme == BitLayout(1, 4, 1, Millisecond)

\* 39 + 16 + 8, 10 ms in the source
LayoutSonyflake == BitLayout(2, 3, 1, CoarseUnitMs * Millisecond)

PresetLayouts == {LayoutDefault, LayoutExtreme, LayoutSonyflake}

\* time.Duration.Milliseconds(): truncating
Milliseconds(d) == d \div Millisecond

CalculateShifts(l) ==
    [timestampShift |-> l.SequenceBits + l.WorkerBits,
     workerShift    |-> l.SequenceBits,
     maxWorker      |-> Pow2(l.WorkerBits) - 1,
     maxSequence    |-> Pow2(l.SequenceBits) - 1]

ValidateWorkerID(l, w) == w >= 0 /\ w <= CalculateShifts(l).maxWorker

\* the usable bits of a word (63 in the source)
UsableBits == WordBits - 1

Nil == "nil"

ErrInvalidBitLayout == "ErrInvalidBitLayout"

\* the mutant of BitLayout.Validate without the range of the sequence bits
BitLayoutValidateAnySequenceBits(l) ==
    IF l.TimestampBits < 0 THEN ErrInvalidBitLayout
    ELSE IF l.WorkerBits < 0 THEN ErrInvalidBitLayout
    ELSE IF l.SequenceBits < 0 THEN ErrInvalidBitLayout
    ELSE IF l.TimestampBits + l.WorkerBits + l.SequenceBits # UsableBits
         THEN ErrInvalidBitLayout
    ELSE IF l.TimestampBits < MinTimestampBits \/ l.TimestampBits > MaxTimestampBits
         THEN ErrInvalidBitLayout
    ELSE IF l.WorkerBits < MinWorkerBits \/ l.WorkerBits > MaxWorkerBits
         THEN ErrInvalidBitLayout
    ELSE IF l.TimeUnit <= 0 THEN ErrInvalidBitLayout
    ELSE Nil

\* BitLayout.Validate: nil, or an error wrapping ErrInvalidBitLayout
BitLayoutValidate(l) ==
    IF l.TimestampBits < 0 THEN ErrInvalidBitLayout
    ELSE IF l.WorkerBits < 0 THEN ErrInvalidBitLayout
    ELSE IF l.SequenceBits < 0 THEN ErrInvalidBitLayout
    ELSE IF l.TimestampBits + l.WorkerBits + l.SequenceBits # UsableBits
         THEN ErrInvalidBitLayout
    ELSE IF l.TimestampBits < MinTimestampBits \/ l.TimestampBits > MaxTimestampBits
         THEN ErrInvalidBitLayout
    ELSE IF l.WorkerBits < MinWorkerBits \/ l.WorkerBits > MaxWorkerBits
         THEN ErrInvalidBitLayout
    ELSE IF l.SequenceBits < MinSequenceBits \/ l.SequenceBits > MaxSequenceBits
         THEN ErrInvalidBitLayout
    ELSE IF l.TimeUnit <= 0 THEN ErrInvalidBitLayout
    ELSE Nil

isPowerOfTwo(n) == n > 0 /\ BitAnd(n, n - 1) = 0

RECURSIVE Log2(_)
Log2(ms) == IF ms > 1 THEN 1 + Log2(ms \div 2) ELSE 0

calculateTimeUnitShift(timeUnit) ==
    LET ms == Milliseconds(timeUnit)
    IN  IF ms <= 0 \/ ~isPowerOfTwo(ms) THEN -1 ELSE Log2(ms)

\* the constants of the default layout, used as package constants
MaxWorkerID == Pow2(WorkerIDBits) - 1

MaxSequence == Pow2(SequenceBits) - 1

TimestampShift == WorkerIDBits + SequenceBits

WorkerIDShift == SequenceBits

(***************************************************************************)
(* id.go: the fields of an identifier word under a layout.                 *)
(***************************************************************************)
\* the timestamp of a word in milliseconds: relative to the package constant
\* Epoch, whatever epoch the generator was configured with
TimestampWithLayout(id, l) ==
    Shr(id, CalculateShifts(l).timestampShift) * Milliseconds(l.TimeUnit) + Epoch

WorkerWithLayout(id, l) ==
    And64(Shr(id, CalculateShifts(l).workerShift), CalculateShifts(l).maxWorker)

SequenceWithLayout(id, l) == And64(id, CalculateShifts(l).maxSequence)


(***************************************************************************)
(* encoding.go and id.go: the encodings of an identifier word.  A string   *)
(* is the sequence of its bytes (ASCII codes).                             *)
(***************************************************************************)
MaxInt == SignBit - 1

\* "ybndrfg8ejkmcpqxot1uwisza345h769"
encodeBase32Map == <<
    121, 98, 110, 100, 114, 102, 103, 56, 101, 106, 107, 109, 99, 112, 113, 120,
    111, 116, 49, 117, 119, 105, 115, 122, 97, 51, 52, 53, 104, 55, 54, 57 >>

\* "123456789abcdefghijkmnopqrstuvwxyzABCDEFGHJKLMNPQRSTUVWXYZ"
encodeBase58Map == <<
    49, 50, 51, 52, 53, 54, 55, 56, 57, 97, 98, 99, 100, 101, 102, 103,
    104, 105, 106, 107, 109, 110, 111, 112, 113, 114, 115, 116, 117, 118, 119, 120,
    121, 122, 65, 66, 67, 68, 69, 70, 71, 72, 74, 75, 76, 77, 78, 80,
    81, 82, 83, 84, 85, 86, 87, 88, 89, 90 >>

\* "0123456789abcdefghijklmnopqrstuvwxyzABCDEFGHIJKLMNOPQRSTUVWXYZ"
encodeBase62Map == <<
    48, 49, 50, 51, 52, 53, 54, 55, 56, 57, 97, 98, 99, 100, 101, 102,
    103, 104, 105, 106, 107, 108, 109, 110, 111, 112, 113, 114, 115, 116, 117, 118,
    119, 120, 121, 122, 65, 66, 67, 68, 69, 70, 71, 72, 73, 74, 75, 76,
    77, 78, 79, 80, 81, 82, 83, 84, 85, 86, 87, 88, 89, 90 >>

\* "0123456789abcdef"
encodeHexMap == <<
    48, 49, 50, 51, 52, 53, 54, 55, 56, 57, 97, 98, 99, 100, 101, 102 >>

\* the marker of a byte outside the alphabet in the decode maps (0xFF)
Invalid == 255

\* init: the decode map built from an encode map, decodeMap[map[i]] = byte(i)
DecodeMap(map, ch) ==
    IF \E i \in 1 .. Len(map) : map[i] = ch
    THEN (CHOOSE i \in 1 .. Len(map) :
              map[i] = ch /\ \A j \in 1 .. Len(map) : map[j] = ch => j <= i) - 1
    ELSE Invalid

decodeBase32Map(ch) == DecodeMap(encodeBase32Map, ch)

decodeBase58Map(ch) == DecodeMap(encodeBase58Map, ch)

decodeBase62Map(ch) == DecodeMap(encodeBase62Map, ch)

\* init: the hexadecimal decode map also takes the upper case of a .. f
decodeHexMap(ch) ==
    IF ch >= 65 /\ ch <= 70
    THEN DecodeMap(encodeHexMap, ch + 32)
    ELSE DecodeMap(encodeHexMap, ch)

ErrInvalidBase2 == "ErrInvalidBase2"

ErrInvalidBase32 == "ErrInvalidBase32"

ErrInvalidBase36 == "ErrInvalidBase36"

ErrInvalidBase58 == "ErrInvalidBase58"

ErrInvalidBase62 == "ErrInvalidBase62"

ErrInvalidBase64 == "ErrInvalidBase64"

ErrInvalidHex == "ErrInvalidHex"

ErrStringTooLong == "ErrStringTooLong"

ErrIntegerOverflow == "ErrIntegerOverflow"

\* the mutant of EncodeLoop that leaves the digits as the loop appends them,
\* the least significant one first
RECURSIVE EncodeLoopUnreversed(_, _, _)
EncodeLoopUnreversed(id, base, map) ==
    IF id >= base
    THEN <<map[(id % base) + 1]>> \o EncodeLoopUnreversed(id \div base, base, map)
    ELSE <<map[id + 1]>>

\* the digits of id from the most significant one: the loop of an encoder,
\* which appends the digits from the least significant one, and its reversal
RECURSIVE EncodeLoop(_, _, _)
EncodeLoop(id, base, map) ==
    IF id >= base
    THEN Append(EncodeLoop(id \div base, base, map), map[(id % base) + 1])
    ELSE <<map[id + 1]>>

\* id & 0x1F and id >>= 5 are id % 32 and id / 32 on the positive words that
\* reach the loop
encodeBase32(id) ==
    IF id <= 0 THEN <<encodeBase32Map[1]>>
    ELSE IF id < 32 THEN <<encodeBase32Map[id + 1]>>
    ELSE EncodeLoop(id, 32, encodeBase32Map)

encodeBase58(id) ==
    IF id <= 0 THEN <<encodeBase58Map[1]>>
    ELSE IF id < 58 THEN <<encodeBase58Map[id + 1]>>
    ELSE EncodeLoop(id, 58, encodeBase58Map)

encodeBase62(id) ==
    IF id <= 0 THEN <<encodeBase62Map[1]>>
    ELSE IF id < 62 THEN <<encodeBase62Map[id + 1]>>
    ELSE EncodeLoop(id, 62, encodeBase62Map)

RECURSIVE HexLoop(_)
HexLoop(id) ==
    IF id > 0
    THEN Append(HexLoop(Shr(id, 4)), encodeHexMap[BitAnd(id, 15) + 1])
    ELSE <<>>

encodeHex(id) == IF id = 0 THEN <<encodeHexMap[1]>> ELSE HexLoop(id)

\* the loop of a decoder from byte i on: an invalid byte, then the check
\* before the multiplication, then id = id * base + digit at the width of the
\* word (id << 5 and id << 4 for base 32 and 16)
RECURSIVE DecodeLoop(_, _, _, _, _)
DecodeLoop(digits, i, id, base, errInvalid) ==
    IF i > Len(digits) THEN [value |-> id, err |-> Nil]
    ELSE IF digits[i] = Invalid THEN [value |-> -1, err |-> errInvalid]
    ELSE IF id > MaxInt \div base THEN [value |-> -1, err |-> ErrIntegerOverflow]
    ELSE DecodeLoop(digits, i + 1, Wrap(id * base + digits[i]), base, errInvalid)

decodeBase32(s) ==
    IF Len(s) > MaxBase32Len THEN [value |-> -1, err |-> ErrStringTooLong]
    ELSE DecodeLoop([i \in 1 .. Len(s) |-> decodeBase32Map(s[i])], 1, 0, 32,
                    ErrInvalidBase32)

decodeBase58(s) ==
    IF Len(s) > MaxBase58Len THEN [value |-> -1, err |-> ErrStringTooLong]
    ELSE DecodeLoop([i \in 1 .. Len(s) |-> decodeBase58Map(s[i])], 1, 0, 58,
                    ErrInvalidBase58)

decodeBase62(s) ==
    IF Len(s) > MaxBase62Len THEN [value |-> -1, err |-> ErrStringTooLong]
    ELSE DecodeLoop([i \in 1 .. Len(s) |-> decodeBase62Map(s[i])], 1, 0, 62,
                    ErrInvalidBase62)

decodeHex(s) ==
    IF Len(s) > MaxHexLen THEN [value |-> -1, err |-> ErrStringTooLong]
    ELSE DecodeLoop([i \in 1 .. Len(s) |-> decodeHexMap(s[i])], 1, 0, 16,
                    ErrInvalidHex)

\* strconv.FormatInt: "-" and the digits 0-9a-z of the magnitude
FormatDigits == encodeBase62Map

FormatInt(i, base) ==
    IF i < 0
    THEN <<45>> \o EncodeLoop(-i, base, FormatDigits)
    ELSE EncodeLoop(i, base, FormatDigits)

\* the value of a digit of strconv.ParseInt
DigitValue(ch) ==
    IF ch >= 48 /\ ch <= 57 THEN ch - 48
    ELSE IF ch >= 97 /\ ch <= 122 THEN ch - 97 + 10
    ELSE IF ch >= 65 /\ ch <= 90 THEN ch - 65 + 10
    ELSE Invalid

RECURSIVE Magnitude(_, _)
Magnitude(s, base) ==
    IF s = <<>> THEN 0
    ELSE Magnitude(SubSeq(s, 1, Len(s) - 1), base) * base + DigitValue(s[Len(s)])

ErrSyntax == "strconv.ErrSyntax"

ErrRange == "strconv.ErrRange"

\* strconv.ParseInt(s, base, 64): an optional sign, then digits below the
\* base; a value outside the word is a range error
ParseInt(s, base) ==
    LET signed == s # <<>> /\ s[1] \in {43, 45}
        digits == IF signed THEN Tail(s) ELSE s
        neg    == signed /\ s[1] = 45
    IN  IF digits = <<>> \/ \E i \in 1 .. Len(digits) : DigitValue(digits[i]) >= base
        THEN [value |-> 0, err |-> ErrSyntax]
        ELSE IF neg /\ Magnitude(digits, base) > MaxInt + 1
        THEN [value |-> -MaxInt - 1, err |-> ErrRange]
        ELSE IF ~neg /\ Magnitude(digits, base) > MaxInt
        THEN [value |-> MaxInt, err |-> ErrRange]
        ELSE [value |-> IF neg THEN -Magnitude(digits, base)
                               ELSE Magnitude(digits, base),
              err   |-> Nil]

\* base64.StdEncoding and base64.URLEncoding: the alphabets and the padding
encodeStd == <<
    65, 66, 67, 68, 69, 70, 71, 72, 73, 74, 75, 76, 77, 78, 79, 80,
    81, 82, 83, 84, 85, 86, 87, 88, 89, 90, 97, 98, 99, 100, 101, 102,
    103, 104, 105, 106, 107, 108, 109, 110, 111, 112, 113, 114, 115, 116, 117, 118,
    119, 120, 121, 122, 48, 49, 50, 51, 52, 53, 54, 55, 56, 57, 43, 47 >>

encodeURL == <<
    65, 66, 67, 68, 69, 70, 71, 72, 73, 74, 75, 76, 77, 78, 79, 80,
    81, 82, 83, 84, 85, 86, 87, 88, 89, 90, 97, 98, 99, 100, 101, 102,
    103, 104, 105, 106, 107, 108, 109, 110, 111, 112, 113, 114, 115, 116, 117, 118,
    119, 120, 121, 122, 48, 49, 50, 51, 52, 53, 54, 55, 56, 57, 45, 95 >>

PadChar == 61

\* EncodeToString: every three bytes give four characters, a last group of
\* one or two bytes gives two or three characters and padding
RECURSIVE EncodeToString(_, _)
EncodeToString(b, map) ==
    IF b = <<>> THEN <<>>
    ELSE IF Len(b) = 1
    THEN <<map[(b[1] \div 4) + 1], map[(b[1] % 4) * 16 + 1], PadChar, PadChar>>
    ELSE IF Len(b) = 2
    THEN <<map[(b[1] \div 4) + 1],
           map[(b[1] % 4) * 16 + (b[2] \div 16) + 1],
           map[(b[2] % 16) * 4 + 1],
           PadChar>>
    ELSE <<map[(b[1] \div 4) + 1],
           map[(b[1] % 4) * 16 + (b[2] \div 16) + 1],
           map[(b[2] % 16) * 4 + (b[3] \div 64) + 1],
           map[(b[3] % 64) + 1]>>
         \o EncodeToString(SubSeq(b, 4, Len(b)), map)

\* DecodeString: groups of four characters, padding only at the end of the
\* last group; anything else is an error
RECURSIVE DecodeString(_, _)
DecodeString(s, map) ==
    IF s = <<>> THEN [bytes |-> <<>>, err |-> Nil]
    ELSE IF Len(s) < 4 THEN [bytes |-> <<>>, err |-> ErrInvalidBase64]
    ELSE
        LET d == [i \in 1 .. 4 |-> DecodeMap(map, s[i])]
            last == Len(s) = 4
            n == IF last /\ s[3] = PadChar /\ s[4] = PadChar THEN 1
                 ELSE IF last /\ s[4] = PadChar THEN 2
                 ELSE 3
            rest == DecodeString(SubSeq(s, 5, Len(s)), map)
        IN  IF \E i \in 1 .. n + 1 : d[i] = Invalid
            THEN [bytes |-> <<>>, err |-> ErrInvalidBase64]
            ELSE IF rest.err # Nil THEN rest
            ELSE [bytes |-> SubSeq(<<d[1] * 4 + (d[2] \div 16),
                                     (d[2] % 16) * 16 + (IF n >= 2 THEN d[3] \div 4 ELSE 0),
                                     (IF n >= 2 THEN (d[3] % 4) * 64 ELSE 0)
                                         + (IF n = 3 THEN d[4] ELSE 0)>>, 1, n)
                                \o rest.bytes,
                  err   |-> Nil]

\* ID.String, ID.Bytes and ID.IntBytes
String(id) == FormatInt(id, 10)

Bytes(id) == String(id)

\* binary.BigEndian.PutUint64(b[:], uint64(id)): the bytes of the word, the
\* most significant one first
IntBytes(id) ==
    [i \in 1 .. WordBytes |-> ((id % Modulus) \div Pow2(8 * (WordBytes - i))) % 256]

RECURSIVE BigEndianUint(_)
BigEndianUint(b) ==
    IF b = <<>> THEN 0 ELSE BigEndianUint(SubSeq(b, 1, Len(b) - 1)) * 256 + b[Len(b)]

\* the Parse functions: the identifier 0 with every error
Parsed(r) == [value |-> IF r.err # Nil THEN 0 ELSE r.value, err |-> r.err]

ParsedAs(r, err) ==
    [value |-> IF r.err # Nil THEN 0 ELSE r.value,
     err   |-> IF r.err # Nil THEN err ELSE Nil]

ParseString(s) == Parsed(ParseInt(s, 10))

ParseBase2(s) == ParsedAs(ParseInt(s, 2), ErrInvalidBase2)

ParseBase32(s) == Parsed(decodeBase32(s))

ParseBase36(s) == ParsedAs(ParseInt(s, 36), ErrInvalidBase36)

ParseBase58(s) == Parsed(decodeBase58(s))

ParseBase62(s) == Parsed(decodeBase62(s))

ParseBytes(b) == ParseString(b)

ParseBase64(s) ==
    IF DecodeString(s, encodeStd).err # Nil
    THEN [value |-> 0, err |-> ErrInvalidBase64]
    ELSE ParseBytes(DecodeString(s, encodeStd).bytes)

ParseBase64URL(s) ==
    IF DecodeString(s, encodeURL).err # Nil
    THEN [value |-> 0, err |-> ErrInvalidBase64]
    ELSE ParseBytes(DecodeString(s, encodeURL).bytes)

ParseHex(s) == Parsed(decodeHex(s))

ParseIntBytes(b) == [value |-> Wrap(BigEndianUint(b)), err |-> Nil]

\* the codecs, each with its encoder and its decoder
Codecs ==
    {"Base2", "Base32", "Base36", "Base58", "Base62", "Base64", "Base64URL",
     "Hex", "Decimal", "BigEndianBytes"}

Encode(c, id) ==
    CASE c = "Base2" -> FormatInt(id, 2)
      [] c = "Base32" -> encodeBase32(id)
      [] c = "Base36" -> FormatInt(id, 36)
      [] c = "Base58" -> encodeBase58(id)
      [] c = "Base62" -> encodeBase62(id)
      [] c = "Base64" -> EncodeToString(Bytes(id), encodeStd)
      [] c = "Base64URL" -> EncodeToString(Bytes(id), encodeURL)
      [] c = "Hex" -> encodeHex(id)
      [] c = "Decimal" -> String(id)
      [] c = "BigEndianBytes" -> IntBytes(id)

Decode(c, s) ==
    CASE c = "Base2" -> ParseBase2(s)
      [] c = "Base32" -> ParseBase32(s)
      [] c = "Base36" -> ParseBase36(s)
      [] c = "Base58" -> ParseBase58(s)
      [] c = "Base62" -> ParseBase62(s)
      [] c = "Base64" -> ParseBase64(s)
      [] c = "Base64URL" -> ParseBase64URL(s)
      [] c = "Hex" -> ParseHex(s)
      [] c = "Decimal" -> ParseString(s)
      [] c = "BigEndianBytes" -> ParseIntBytes(s)

(***************************************************************************)
(* snowflake.go: configuration and generator state.                        *)
(*                                                                         *)
(* There is one generator per caller index.  When shared is TRUE every     *)
(* caller uses generator 1 (one generator, concurrent callers); when it is *)
(* FALSE caller p uses generator p (several generators with the same       *)
(* layout and epoch, one caller each).                                     *)
(***************************************************************************)
VARIABLES
    layout,            \* Config.Layout
    epoch,             \* Config.Epoch, milliseconds
    maxClockBackward,  \* Config.MaxClockBackward, microseconds
    enableMetrics,     \* Config.EnableMetrics
    workerID,          \* workerID[g]: Generator.workerID
    shared,            \* whether the callers share generator 1
    defaultGeneratorOnce,  \* the sync.Once of the default generator
    defaultGeneratorErr,   \* the error cached by initDefaultGenerator
    initCalls,         \* how many times initDefaultGenerator has run
    arg,               \* the codec, identifier and string of an encoding call
    mu,                \* mu[g]: 0 when unlocked, else the caller holding Generator.mu
    lastTimestamp,     \* lastTimestamp[g]: Generator.lastTimestamp, time units
    sequence,          \* sequence[g]: Generator.sequence
    generated,         \* generated[g]: Generator.generated
    clockBackward,     \* clockBackward[g]: Generator.clockBackward
    clockBackwardErr,  \* clockBackwardErr[g]: Generator.clockBackwardErr
    sequenceOverflow,  \* sequenceOverflow[g]: Generator.sequenceOverflow
    pc,                \* pc[p]: where caller p is in its call
    ctxDone,           \* ctxDone[p]: ctx.Done() of p's call is closed
    doneAt,            \* doneAt[p]: len(ids) of p's call when its ctx was canceled
    count,             \* count[p]: the count argument of p's GenerateBatch call
    ids,               \* ids[p]: the ids slice of p's GenerateBatch call
    ret,               \* what the step just taken returned, and to whom
    emitted,           \* emitted[g]: the words composed by g, in order
    emLast,            \* emLast[g]: lastTimestamp when g composed its last word
    emSeq,             \* emSeq[g]: sequence when g composed its last word
    emTime,            \* emTime[g]: the time units of the words composed by g
    requested          \* identifiers requested so far, over all calls

\* the package-level state of the default generator
defaultVars == <<defaultGeneratorOnce, defaultGeneratorErr, initCalls>>

\* the Config and the arrangement of the generators
configVars == <<layout, epoch, maxClockBackward, enableMetrics, workerID, shared>>

\* what no emission operation changes
cfgVars == <<configVars, defaultVars, arg>>

genVars == <<lastTimestamp, sequence>>

metricVars == <<generated, clockBackward, clockBackwardErr, sequenceOverflow>>

ghostVars == <<emitted, emLast, emSeq, emTime>>

vars == <<layout, epoch, maxClockBackward, enableMetrics, workerID, shared,
          defaultGeneratorOnce, defaultGeneratorErr, initCalls, arg, mu,
          lastTimestamp, sequence, generated, clockBackward, clockBackwardErr,
          sequenceOverflow, pc, ctxDone, doneAt, count, ids, ret, emitted, emLast,
          emSeq, emTime, requested>>

Free == 0

ErrContextCanceled == "ErrContextCanceled"

ErrClockMovedBack == "ErrClockMovedBack"

NoReturn == [caller |-> 0, status |-> "none", ids |-> <<>>]

\* no encoding call
NoArg == [codec |-> "none", word |-> 0, text |-> <<>>]

GenOf(p) == IF shared THEN 1 ELSE p

\* Config.Validate: the layout is one of the presets here, so what is left to
\* check is the worker id, the epoch and the tolerance
ConfigValidate(l, w, e, tol) ==
    /\ ValidateWorkerID(l, w)
    /\ e > 0
    /\ tol >= 0

\* *ConfigError, by its Field; every one carries Value, Reason and Constraint
\* and unwraps to ErrInvalidConfig
ConfigErrorWorkerID == "ConfigError{Field: WorkerID}"

ConfigErrorEpoch == "ConfigError{Field: Epoch}"

ConfigErrorMaxClockBackward == "ConfigError{Field: MaxClockBackward}"

ConfigErrors == {ConfigErrorWorkerID, ConfigErrorEpoch, ConfigErrorMaxClockBackward}

\* the mutant of Validate that keeps a layout with no bit field set as it is
ValidateKeepsZeroLayout(l, w, e, tol) ==
    [Layout |-> l,
     err    |-> IF BitLayoutValidate(l) # Nil THEN BitLayoutValidate(l)
                ELSE IF ~ValidateWorkerID(l, w) THEN ConfigErrorWorkerID
                ELSE IF e <= 0 THEN ConfigErrorEpoch
                ELSE IF tol < 0 THEN ConfigErrorMaxClockBackward
                ELSE Nil]

\* Config.Validate on the whole Config: the layout it leaves in the Config
\* (the default one for a layout with no bit field set) and its error
Validate(l, w, e, tol) ==
    LET dl == IF l.TimestampBits = 0 /\ l.WorkerBits = 0 /\ l.SequenceBits = 0
              THEN LayoutDefault
              ELSE l
    IN  [Layout |-> dl,
         err    |-> IF BitLayoutValidate(dl) # Nil THEN BitLayoutValidate(dl)
                    ELSE IF ~ValidateWorkerID(dl, w) THEN ConfigErrorWorkerID
                    ELSE IF e <= 0 THEN ConfigErrorEpoch
                    ELSE IF tol < 0 THEN ConfigErrorMaxClockBackward
                    ELSE Nil]

\* the runtime panic of an integer division by zero
PanicDivideByZero == "panic: integer divide by zero"

\* NewWithConfig: the cached constants of the generator
timestampShift == CalculateShifts(layout).timestampShift

workerShift == CalculateShifts(layout).workerShift

maxSequence == CalculateShifts(layout).maxSequence

timeUnit == layout.TimeUnit

timeUnitShift == calculateTimeUnitShift(layout.TimeUnit)

customEpoch == epoch \div Milliseconds(layout.TimeUnit)

\* the configurations of the model: the worker ids at the two ends of the
\* layout's range and the first one past the range of the default layout, an
\* epoch at or after the first clock readings, no tolerance or one millisecond
\* of it
WorkerIDs(l) ==
    {w \in {0, MaxWorkerID + 1, CalculateShifts(l).maxWorker} : ValidateWorkerID(l, w)}

Epochs == {1, 2}

Tolerances == {0, Millisecond}

InitConfig ==
    /\ layout \in PresetLayouts
    /\ epoch \in Epochs
    /\ maxClockBackward \in Tolerances
    /\ workerID \in [Callers -> WorkerIDs(layout)]
    /\ \A g \in Callers : ConfigValidate(layout, workerID[g], epoch, maxClockBackward)

\* the Generator literal of NewWithConfig and no call made yet
InitCalls ==
    /\ mu = [g \in Callers |-> Free]
    /\ lastTimestamp = [g \in Callers |-> 0]
    /\ sequence = [g \in Callers |-> 0]
    /\ generated = [g \in Callers |-> 0]
    /\ clockBackward = [g \in Callers |-> 0]
    /\ clockBackwardErr = [g \in Callers |-> 0]
    /\ sequenceOverflow = [g \in Callers |-> 0]
    /\ ctxDone = [p \in Callers |-> FALSE]
    /\ doneAt = [p \in Callers |-> 0]
    /\ count = [p \in Callers |-> 0]
    /\ ids = [p \in Callers |-> <<>>]
    /\ ret = NoReturn
    /\ emitted = [g \in Callers |-> <<>>]
    /\ emLast = [g \in Callers |-> 0]
    /\ emSeq = [g \in Callers |-> 0]
    /\ emTime = [g \in Callers |-> <<>>]
    /\ requested = 0

\* the same, with the default generator of the package not yet used and no
\* encoding call
InitGenerator ==
    /\ defaultGeneratorOnce = "fresh"
    /\ defaultGeneratorErr = Nil
    /\ initCalls = 0
    /\ arg = NoArg
    /\ InitCalls

\* a constructed generator with every caller outside a call
InitCallers ==
    /\ InitGenerator
    /\ pc = [p \in Callers |-> "idle"]

\* the same, from a Config with EnableMetrics as DefaultConfig sets it
InitState ==
    /\ InitCallers
    /\ enableMetrics = TRUE

\* one generator shared by all callers, with the largest worker id of its
\* layout and the first epoch
Init ==
    /\ InitConfig
    /\ shared = TRUE
    /\ epoch = 1
    /\ \A g \in Callers : workerID[g] = CalculateShifts(layout).maxWorker
    /\ InitState

(***************************************************************************)
(* The environment: the cancellation signals and the clock.  The clock is  *)
(* not a variable: every read of it draws a reading from ClockReadings, so *)
(* that it may stand still, advance or go backward between any two reads.  *)
(*                                                                         *)
(* A call starts in the step in which it acquires the mutex: a caller      *)
(* blocked in mu.Lock() has done nothing yet, and a context canceled       *)
(* while it was blocked is a context that is done when the call starts.    *)
(* The callers of one generator are interchangeable, so a call is started  *)
(* by the first caller unless that one is in a call of its own.            *)
(***************************************************************************)
MayCall(p) ==
    /\ pc[p] = "idle"
    /\ shared => \A q \in Callers : q < p => pc[q] # "idle"

\* the context of p's call in progress is canceled
Cancel(p) ==
    /\ pc[p] # "idle"
    /\ ~ctxDone[p]
    /\ ctxDone' = [ctxDone EXCEPT ![p] = TRUE]
    /\ doneAt' = [doneAt EXCEPT ![p] = Len(ids[p])]
    /\ ret' = NoReturn
    /\ UNCHANGED <<cfgVars, mu, genVars, metricVars, pc, count, ids, ghostVars,
                   requested>>

\* what the clock may read, in milliseconds
ClockReadings == 0 .. MaxClock

\* Generator.currentTimestamp: the clock, reading currentMillis, in time units
currentTimestamp(currentMillis) ==
    IF timeUnitShift >= 0
    THEN Shr(currentMillis, timeUnitShift)
    ELSE currentMillis \div Milliseconds(timeUnit)

(***************************************************************************)
(* Steps shared by the emission operations.                                *)
(***************************************************************************)
\* p's call returns status with idsOut and the mutex of its generator is unlocked
Return(p, status, idsOut) ==
    /\ pc' = [pc EXCEPT ![p] = "idle"]
    /\ ret' = [caller |-> p, status |-> status, ids |-> idsOut]
    /\ mu' = [mu EXCEPT ![GenOf(p)] = Free]
    /\ ctxDone' = [ctxDone EXCEPT ![p] = FALSE]
    /\ doneAt' = [doneAt EXCEPT ![p] = 0]
    /\ ids' = [ids EXCEPT ![p] = <<>>]
    /\ count' = [count EXCEPT ![p] = 0]

\* newClockError: the structured error of a clock regression
newClockError(currentTs, lastTs, toleranceMs, worker, recovered) ==
    [CurrentTimestamp      |-> currentTs,
     LastTimestamp         |-> lastTs,
     DriftMilliseconds     |-> lastTs - currentTs,
     ToleranceMilliseconds |-> toleranceMs,
     WorkerID              |-> worker,
     Recovered             |-> recovered]

\* fmt.Errorf("%w: ...", sentinel, ...): an error that wraps sentinel and
\* carries its numbers only in its text
Errorf(sentinel) == [Unwrap |-> sentinel]

\* p's call returns the error e, which is or wraps ErrClockMovedBack, with
\* idsOut and the mutex of its generator is unlocked
ReturnError(p, e, idsOut) ==
    /\ pc' = [pc EXCEPT ![p] = "idle"]
    /\ ret' = [caller |-> p, status |-> ErrClockMovedBack, ids |-> idsOut,
               err |-> e]
    /\ mu' = [mu EXCEPT ![GenOf(p)] = Free]
    /\ ctxDone' = [ctxDone EXCEPT ![p] = FALSE]
    /\ doneAt' = [doneAt EXCEPT ![p] = 0]
    /\ ids' = [ids EXCEPT ![p] = <<>>]
    /\ count' = [count EXCEPT ![p] = 0]

\* p's call goes on at where, holding the mutex
Goto(p, where) ==
    /\ pc' = [pc EXCEPT ![p] = where]
    /\ mu' = [mu EXCEPT ![GenOf(p)] = p]
    /\ ret' = NoReturn
    /\ UNCHANGED <<ctxDone, doneAt, count>>

\* (sequence + 1) & mask
NextSequence(seq, mask) == And64(seq + 1, mask)

\* the identifier word
ComposeID(timestamp, tsShift, wShift, worker, seq) ==
    Or64(Or64(Shl(timestamp - customEpoch, tsShift), Shl(worker, wShift)), seq)

\* the generator state written when a word is composed
Store(g, timestamp, seq, id) ==
    /\ lastTimestamp' = [lastTimestamp EXCEPT ![g] = timestamp]
    /\ sequence' = [sequence EXCEPT ![g] = seq]
    /\ emitted' = [emitted EXCEPT ![g] = Append(@, id)]
    /\ emLast' = [emLast EXCEPT ![g] = timestamp]
    /\ emSeq' = [emSeq EXCEPT ![g] = seq]
    /\ emTime' = [emTime EXCEPT ![g] = Append(@, timestamp)]

(***************************************************************************)
(* Generator.generateInt64WithContext: single emission.  The mutex is held *)
(* from the start of the call until it returns, also while it sleeps.      *)
(***************************************************************************)
\* diff <= toleranceInTimeUnits
SingleWithinTolerance(diff, tolerance, unit) ==
    diff <= Milliseconds(tolerance) \div Milliseconds(unit)

\* the word is composed with the cached constants of the layout and returned
SingleEmit(p, timestamp, seq) ==
    LET g  == GenOf(p)
        id == ComposeID(timestamp, timestampShift, workerShift, workerID[g], seq)
    IN  /\ Store(g, timestamp, seq, id)
        /\ generated' = [generated EXCEPT ![g] = @ + 1]
        /\ Return(p, "ok", <<id>>)

\* whether waitNextMillisWithContextInternal sleeps before it polls the clock
WaitSleeps(g, currentTime) ==
    LET timeToWait == (lastTimestamp[g] + 1) - currentTime
    IN  timeToWait > 0 /\ timeToWait * timeUnit > SleepThresholdUs

\* the same time unit increments the sequence, a new one resets it
SingleSequence(p, timestamp) ==
    LET g == GenOf(p)
        s == NextSequence(sequence[g], maxSequence)
    IN  IF timestamp = lastTimestamp[g]
        THEN IF s = 0
             THEN /\ sequence' = [sequence EXCEPT ![g] = s]
                  /\ sequenceOverflow' = [sequenceOverflow EXCEPT ![g] = @ + 1]
                  /\ Goto(p, IF WaitSleeps(g, timestamp) THEN "sSeqSleep" ELSE "sSpin")
                  /\ UNCHANGED <<lastTimestamp, generated, ids, ghostVars>>
             ELSE /\ SingleEmit(p, timestamp, s)
                  /\ UNCHANGED sequenceOverflow
        ELSE /\ SingleEmit(p, timestamp, 0)
             /\ UNCHANGED sequenceOverflow

\* the drift handling without its second comparison with lastTimestamp
SingleAfterDriftUnchecked(p, timestamp) ==
    /\ SingleSequence(p, timestamp)
    /\ UNCHANGED clockBackwardErr

\* a drift handling whose failure takes over the regressed clock
SingleAfterDriftAdopts(p, timestamp) ==
    LET g == GenOf(p)
    IN  IF timestamp < lastTimestamp[g]
        THEN /\ clockBackwardErr' = [clockBackwardErr EXCEPT ![g] = @ + 1]
             /\ lastTimestamp' = [lastTimestamp EXCEPT ![g] = timestamp]
             /\ ReturnError(p, newClockError(timestamp, lastTimestamp[g],
                                             Milliseconds(maxClockBackward),
                                             workerID[g], FALSE), <<>>)
             /\ UNCHANGED <<sequence, generated, sequenceOverflow, ghostVars>>
        ELSE /\ SingleSequence(p, timestamp)
             /\ UNCHANGED clockBackwardErr

\* a drift handling whose failure is not counted in clockBackwardErr
SingleAfterDriftUncounted(p, timestamp) ==
    LET g == GenOf(p)
    IN  IF timestamp < lastTimestamp[g]
        THEN /\ ReturnError(p, newClockError(timestamp, lastTimestamp[g],
                                             Milliseconds(maxClockBackward),
                                             workerID[g], FALSE), <<>>)
             /\ UNCHANGED <<genVars, generated, clockBackwardErr,
                            sequenceOverflow, ghostVars>>
        ELSE /\ SingleSequence(p, timestamp)
             /\ UNCHANGED clockBackwardErr

\* still behind after the drift handling is ErrClockMovedBack
SingleAfterDrift(p, timestamp) ==
    LET g == GenOf(p)
    IN  IF timestamp < lastTimestamp[g]
        THEN /\ clockBackwardErr' = [clockBackwardErr EXCEPT ![g] = @ + 1]
             /\ ReturnError(p, newClockError(timestamp, lastTimestamp[g],
                                             Milliseconds(maxClockBackward),
                                             workerID[g], FALSE), <<>>)
             /\ UNCHANGED <<genVars, generated, sequenceOverflow, ghostVars>>
        ELSE /\ SingleSequence(p, timestamp)
             /\ UNCHANGED clockBackwardErr

\* Generate, GenerateID and their WithContext forms: p's call acquires the
\* mutex, checks ctx (done: whether it is canceled already), reads the clock
\* and handles the drift
GenerateWithContext(p, done, now) ==
    LET g         == GenOf(p)
        timestamp == currentTimestamp(now)
        diff      == lastTimestamp[g] - timestamp
    IN  /\ MayCall(p)
        /\ requested < MaxEmit
        /\ mu[g] = Free
        /\ requested' = requested + 1
        /\ IF done
           THEN /\ Return(p, ErrContextCanceled, <<>>)
                /\ UNCHANGED <<genVars, metricVars, ghostVars>>
           ELSE IF timestamp < lastTimestamp[g]
                THEN /\ clockBackward' = [clockBackward EXCEPT ![g] = @ + 1]
                     /\ IF SingleWithinTolerance(diff, maxClockBackward, timeUnit)
                        THEN /\ Goto(p, "sDriftSleep")
                             /\ UNCHANGED <<genVars, generated, clockBackwardErr,
                                            sequenceOverflow, ids, ghostVars>>
                        ELSE SingleAfterDrift(p, timestamp)
                ELSE /\ SingleAfterDrift(p, timestamp)
                     /\ UNCHANGED clockBackward
        /\ UNCHANGED cfgVars

\* the drift sleep is over: the clock is read again
SingleDriftWake(p, now) ==
    /\ pc[p] = "sDriftSleep"
    /\ SingleAfterDrift(p, currentTimestamp(now))
    /\ UNCHANGED <<cfgVars, clockBackward, requested>>

\* ctx is canceled during the drift sleep
SingleDriftCancel(p) ==
    /\ pc[p] = "sDriftSleep"
    /\ ctxDone[p]
    /\ Return(p, ErrContextCanceled, <<>>)
    /\ UNCHANGED <<cfgVars, genVars, metricVars, ghostVars, requested>>

\* a sleep of the sequence-overflow wait that starts over when it ends
SingleSeqSleepAgain(p) ==
    /\ pc[p] = "sSeqSleep"
    /\ Goto(p, "sSeqSleep")
    /\ UNCHANGED <<cfgVars, genVars, metricVars, ids, ghostVars, requested>>

\* the sleep of the sequence-overflow wait is over: the clock is polled next
SingleSeqSleepDone(p) ==
    /\ pc[p] = "sSeqSleep"
    /\ Goto(p, "sSpin")
    /\ UNCHANGED <<cfgVars, genVars, metricVars, ids, ghostVars, requested>>

\* a wait that reports the cancellation to its caller
waitNextMillisReportsCancel(timestamp) == [timestamp |-> timestamp, err |-> TRUE]

\* waitNextMillisWithContext when ctx is canceled during the sleep: the clock as
\* read then, and no error
waitNextMillisCanceled(timestamp) == [timestamp |-> timestamp, err |-> FALSE]

\* ctx is canceled during the sleep of the sequence-overflow wait
SingleSeqSleepCancel(p, now) ==
    LET g == GenOf(p)
        r == waitNextMillisCanceled(currentTimestamp(now))
    IN  /\ pc[p] = "sSeqSleep"
        /\ ctxDone[p]
        /\ IF r.err
           THEN /\ Return(p, ErrContextCanceled, <<>>)
                /\ UNCHANGED <<genVars, generated, ghostVars>>
           ELSE SingleEmit(p, r.timestamp, sequence[g])
        /\ UNCHANGED <<cfgVars, clockBackward, clockBackwardErr, sequenceOverflow,
                       requested>>

\* a polling loop that leaves at the first reading of the clock
SingleSpinAnyTime(p, now) ==
    /\ pc[p] = "sSpin"
    /\ SingleEmit(p, currentTimestamp(now), sequence[GenOf(p)])
    /\ UNCHANGED <<cfgVars, clockBackward, clockBackwardErr, sequenceOverflow,
                   requested>>

\* the polling loop leaves once the clock is past lastTimestamp
SingleSpin(p, now) ==
    LET g == GenOf(p)
    IN  /\ pc[p] = "sSpin"
        /\ currentTimestamp(now) > lastTimestamp[g]
        /\ SingleEmit(p, currentTimestamp(now), sequence[g])
        /\ UNCHANGED <<cfgVars, clockBackward, clockBackwardErr, sequenceOverflow,
                       requested>>

(***************************************************************************)
(* Generator.GenerateBatch: batch emission.  The mutex is taken once, and  *)
(* released and taken again around the drift sleep.                        *)
(***************************************************************************)
\* GenerateBatch and GenerateBatchInt64: p's call for n identifiers returns at
\* once if n <= 0 and else acquires the mutex (done: whether ctx is canceled
\* already)
GenerateBatch(p, n, done) ==
    /\ MayCall(p)
    /\ requested + n <= MaxEmit
    /\ requested' = requested + (IF n <= 0 THEN 1 ELSE n)
    /\ IF n <= 0
       THEN /\ ret' = [caller |-> p, status |-> "ok", ids |-> <<>>]
            /\ UNCHANGED <<mu, pc, ctxDone, doneAt, count>>
       ELSE /\ mu[GenOf(p)] = Free
            /\ mu' = [mu EXCEPT ![GenOf(p)] = p]
            /\ pc' = [pc EXCEPT ![p] = "bIter"]
            /\ ctxDone' = [ctxDone EXCEPT ![p] = done]
            /\ doneAt' = [doneAt EXCEPT ![p] = 0]
            /\ count' = [count EXCEPT ![p] = n]
            /\ ret' = NoReturn
    /\ UNCHANGED <<cfgVars, genVars, metricVars, ids, ghostVars>>

\* diff <= g.maxClockBackward.Milliseconds()
BatchWithinTolerance(diff, tolerance, unit) == diff <= Milliseconds(tolerance)

\* the word is composed with the constants of the default layout and appended;
\* after the last one the loop ends, generated is updated and the call returns
BatchEmit(p, timestamp, seq) ==
    LET g   == GenOf(p)
        id  == ComposeID(timestamp, TimestampShift, WorkerIDShift, workerID[g], seq)
        out == Append(ids[p], id)
    IN  /\ Store(g, timestamp, seq, id)
        /\ IF Len(out) >= count[p]
           THEN /\ generated' = [generated EXCEPT ![g] = @ + Len(out)]
                /\ Return(p, "ok", out)
           ELSE /\ ids' = [ids EXCEPT ![p] = out]
                /\ Goto(p, "bIter")
                /\ UNCHANGED generated

\* the same time unit increments the sequence, a new one resets it
BatchSequence(p, timestamp) ==
    LET g == GenOf(p)
        s == NextSequence(sequence[g], MaxSequence)
    IN  IF timestamp = lastTimestamp[g]
        THEN IF s = 0
             THEN /\ sequence' = [sequence EXCEPT ![g] = s]
                  /\ sequenceOverflow' = [sequenceOverflow EXCEPT ![g] = @ + 1]
                  /\ Goto(p, "bSpin")
                  /\ UNCHANGED <<lastTimestamp, generated, ids, ghostVars>>
             ELSE /\ BatchEmit(p, timestamp, s)
                  /\ UNCHANGED sequenceOverflow
        ELSE /\ BatchEmit(p, timestamp, 0)
             /\ UNCHANGED sequenceOverflow

\* the drift handling without its second comparison with lastTimestamp
BatchAfterDriftUnchecked(p, timestamp) ==
    /\ BatchSequence(p, timestamp)
    /\ UNCHANGED clockBackwardErr

\* still behind after the drift handling is ErrClockMovedBack
BatchAfterDrift(p, timestamp) ==
    LET g == GenOf(p)
    IN  IF timestamp < lastTimestamp[g]
        THEN /\ clockBackwardErr' = [clockBackwardErr EXCEPT ![g] = @ + 1]
             /\ ReturnError(p, Errorf(ErrClockMovedBack), ids[p])
             /\ UNCHANGED <<genVars, generated, sequenceOverflow, ghostVars>>
        ELSE /\ BatchSequence(p, timestamp)
             /\ UNCHANGED clockBackwardErr

\* an iteration of the loop that does not poll ctx
BatchIterUnpolled(p, now) ==
    LET g         == GenOf(p)
        timestamp == currentTimestamp(now)
        diff      == lastTimestamp[g] - timestamp
    IN  /\ pc[p] = "bIter"
        /\ IF timestamp < lastTimestamp[g]
           THEN /\ clockBackward' = [clockBackward EXCEPT ![g] = @ + 1]
                /\ IF BatchWithinTolerance(diff, maxClockBackward, timeUnit)
                   THEN /\ pc' = [pc EXCEPT ![p] = "bDriftSleep"]
                        /\ mu' = [mu EXCEPT ![g] = Free]
                        /\ ret' = NoReturn
                        /\ UNCHANGED <<genVars, generated, clockBackwardErr,
                                       sequenceOverflow, ctxDone, doneAt, count, ids,
                                       ghostVars>>
                   ELSE BatchAfterDrift(p, timestamp)
           ELSE /\ BatchAfterDrift(p, timestamp)
                /\ UNCHANGED clockBackward
        /\ UNCHANGED <<cfgVars, requested>>

\* one iteration of the loop: the ctx poll, the clock and the drift handling
BatchIter(p, now) ==
    LET g         == GenOf(p)
        i         == Len(ids[p])
        timestamp == currentTimestamp(now)
        diff      == lastTimestamp[g] - timestamp
    IN  /\ pc[p] = "bIter"
        /\ IF i % PollInterval = 0 /\ ctxDone[p]
           THEN /\ Return(p, ErrContextCanceled, ids[p])
                /\ UNCHANGED <<genVars, metricVars, ghostVars>>
           ELSE IF timestamp < lastTimestamp[g]
                THEN /\ clockBackward' = [clockBackward EXCEPT ![g] = @ + 1]
                     /\ IF BatchWithinTolerance(diff, maxClockBackward, timeUnit)
                        THEN /\ pc' = [pc EXCEPT ![p] = "bDriftSleep"]
                             /\ mu' = [mu EXCEPT ![g] = Free]
                             /\ ret' = NoReturn
                             /\ UNCHANGED <<genVars, generated, clockBackwardErr,
                                            sequenceOverflow, ctxDone, doneAt, count, ids,
                                            ghostVars>>
                        ELSE BatchAfterDrift(p, timestamp)
                ELSE /\ BatchAfterDrift(p, timestamp)
                     /\ UNCHANGED clockBackward
        /\ UNCHANGED <<cfgVars, requested>>

\* the drift sleep is over: p waits for the mutex again
BatchDriftWake(p) ==
    /\ pc[p] = "bDriftSleep"
    /\ pc' = [pc EXCEPT ![p] = "bRelock"]
    /\ ret' = NoReturn
    /\ UNCHANGED <<cfgVars, mu, genVars, metricVars, ctxDone, doneAt, count, ids,
                   ghostVars, requested>>

\* ctx is canceled during the drift sleep: p waits for the mutex to return
BatchDriftCancel(p) ==
    /\ pc[p] = "bDriftSleep"
    /\ ctxDone[p]
    /\ pc' = [pc EXCEPT ![p] = "bCancelRelock"]
    /\ ret' = NoReturn
    /\ UNCHANGED <<cfgVars, mu, genVars, metricVars, ctxDone, doneAt, count, ids,
                   ghostVars, requested>>

\* p has the mutex again after the sleep and reads the clock again
BatchRelock(p, now) ==
    /\ pc[p] = "bRelock"
    /\ mu[GenOf(p)] = Free
    /\ BatchAfterDrift(p, currentTimestamp(now))
    /\ UNCHANGED <<cfgVars, clockBackward, requested>>

\* a canceled batch that returns without its identifiers
BatchCancelRelockEmpty(p) ==
    /\ pc[p] = "bCancelRelock"
    /\ mu[GenOf(p)] = Free
    /\ Return(p, ErrContextCanceled, <<>>)
    /\ UNCHANGED <<cfgVars, genVars, metricVars, ghostVars, requested>>

\* a canceled batch that returns, and unlocks, without taking the mutex again
BatchCancelNoRelock(p) ==
    /\ pc[p] = "bCancelRelock"
    /\ Return(p, ErrContextCanceled, ids[p])
    /\ UNCHANGED <<cfgVars, genVars, metricVars, ghostVars, requested>>

\* p has the mutex again after the cancellation and returns
BatchCancelRelock(p) ==
    /\ pc[p] = "bCancelRelock"
    /\ mu[GenOf(p)] = Free
    /\ Return(p, ErrContextCanceled, ids[p])
    /\ UNCHANGED <<cfgVars, genVars, metricVars, ghostVars, requested>>

\* the polling loop of the sequence overflow leaves once the clock is past
\* lastTimestamp
BatchSpin(p, now) ==
    LET g == GenOf(p)
    IN  /\ pc[p] = "bSpin"
        /\ currentTimestamp(now) > lastTimestamp[g]
        /\ BatchEmit(p, currentTimestamp(now), sequence[g])
        /\ UNCHANGED <<cfgVars, clockBackward, clockBackwardErr, sequenceOverflow,
                       requested>>

(***************************************************************************)
(* Specifications.                                                         *)
(***************************************************************************)
\* single emission whose context is not canceled
SingleStep(p) ==
    \/ \E now \in ClockReadings : GenerateWithContext(p, FALSE, now)
    \/ \E now \in ClockReadings : SingleDriftWake(p, now)
    \/ SingleSeqSleepDone(p)
    \/ \E now \in ClockReadings : SingleSpin(p, now)

\* what a canceled context adds to single emission
SingleCancelStep(p) ==
    \/ \E now \in ClockReadings : GenerateWithContext(p, TRUE, now)
    \/ SingleDriftCancel(p)
    \/ \E now \in ClockReadings : SingleSeqSleepCancel(p, now)

\* batch emission whose context is not canceled
BatchStep(p) ==
    \/ \E n \in 0 .. MaxCount : GenerateBatch(p, n, FALSE)
    \/ \E now \in ClockReadings : BatchIter(p, now)
    \/ BatchDriftWake(p)
    \/ \E now \in ClockReadings : BatchRelock(p, now)
    \/ \E now \in ClockReadings : BatchSpin(p, now)

\* what a canceled context adds to batch emission
BatchCancelStep(p) ==
    \/ \E n \in 0 .. MaxCount : GenerateBatch(p, n, TRUE)
    \/ BatchDriftCancel(p)
    \/ BatchCancelRelock(p)

\* every emission operation and the cancellation signals
Next ==
    \/ \E p \in Callers : SingleStep(p)
    \/ \E p \in Callers : SingleCancelStep(p)
    \/ \E p \in Callers : BatchStep(p)
    \/ \E p \in Callers : BatchCancelStep(p)
    \/ \E p \in Callers : Cancel(p)

Spec == Init /\ [][Next]_vars

(***************************************************************************)
(* Construction.  Before it every caller is at "new" and the configuration *)
(* variables hold the Config as the caller passes it; the generator has    *)
(* one worker id, workerID[1].  NewWithConfig returns a generator (every   *)
(* caller at "idle"), returns an error and no generator ("failed"), or     *)
(* panics in the conversion of the epoch to time units ("panic").          *)
(***************************************************************************)
Unconstructed == \A p \in Callers : pc[p] = "new"

Outcome(status) == [caller |-> 0, status |-> status, ids |-> <<>>]

NewWithConfig ==
    LET v == Validate(layout, workerID[1], epoch, maxClockBackward)
    IN  /\ Unconstructed
        /\ IF v.err # Nil
           THEN /\ pc' = [p \in Callers |-> "failed"]
                /\ ret' = Outcome(v.err)
                /\ UNCHANGED layout
           ELSE IF Milliseconds(v.Layout.TimeUnit) = 0
           THEN /\ pc' = [p \in Callers |-> "panic"]
                /\ ret' = Outcome(PanicDivideByZero)
                /\ layout' = v.Layout
           ELSE /\ pc' = [p \in Callers |-> "idle"]
                /\ ret' = Outcome(Nil)
                /\ layout' = v.Layout
        /\ UNCHANGED <<epoch, maxClockBackward, enableMetrics, workerID, shared,
                       defaultVars, arg, mu, genVars, metricVars, ctxDone, doneAt, count, ids, ghostVars,
                       requested>>

\* a call of BitLayout.Validate on a layout as the caller wrote it
LayoutValidate ==
    /\ Unconstructed
    /\ ret = NoReturn
    /\ ret' = Outcome(BitLayoutValidate(layout))
    /\ UNCHANGED <<cfgVars, mu, genVars, metricVars, pc, ctxDone, doneAt, count, ids,
                   ghostVars, requested>>

\* the Configs of the model: every bit field from below zero to past its
\* range, a time unit that is negative, zero, half a millisecond, one
\* millisecond or the coarse unit, the worker ids around the ends of the
\* narrowest and of the widest worker field, an epoch that is zero or positive,
\* a tolerance that is negative or positive
LayoutsIn ==
    {BitLayout(t, w, s, unit) :
        t \in -1 .. MaxTimestampBits + 1,
        w \in -1 .. MaxWorkerBits + 1,
        s \in -1 .. MaxSequenceBits + 1,
        unit \in {-Millisecond, 0, Millisecond \div 2, Millisecond,
                  CoarseUnitMs * Millisecond}}

WorkerIDsIn ==
    {-1, 0, MaxWorkerID, MaxWorkerID + 1, Pow2(MaxWorkerBits) - 1, Pow2(MaxWorkerBits)}

EpochsIn == {0, Epoch}

TolerancesIn == {-Millisecond, Millisecond}

InitNew ==
    /\ layout \in LayoutsIn
    /\ epoch \in EpochsIn
    /\ maxClockBackward \in TolerancesIn
    /\ workerID \in [Callers -> WorkerIDsIn]
    /\ workerID[2] = workerID[1]
    /\ enableMetrics = TRUE
    /\ shared = TRUE
    /\ InitGenerator
    /\ pc = [p \in Callers |-> "new"]

\* construction from any Config of the model, then single emission by one
\* caller
NextNew == NewWithConfig \/ SingleStep(1)

SpecNew == InitNew /\ [][NextNew]_vars

\* construction from a Config whose layout has no bit field set
InitZero ==
    /\ InitNew
    /\ layout.TimestampBits = 0 /\ layout.WorkerBits = 0 /\ layout.SequenceBits = 0

\* construction, then single and batch emission by one caller
NextZero == NewWithConfig \/ SingleStep(1) \/ BatchStep(1)

SpecZero == InitZero /\ [][NextZero]_vars

\* BitLayout.Validate applied to every layout of the model
InitLayouts ==
    /\ InitNew
    /\ epoch = Epoch
    /\ maxClockBackward = Millisecond
    /\ workerID[1] = 0

SpecLayouts == InitLayouts /\ [][LayoutValidate]_vars

(***************************************************************************)
(* The default generator of the package.  A caller of a package-level      *)
(* emission function is at "fresh" before the call, at "init" while it     *)
(* runs initDefaultGenerator inside defaultGeneratorOnce.Do, at "checkErr" *)
(* when Do has returned, and then in the call of the default generator,    *)
(* which is generator 1.  Once the default generator exists, a further     *)
(* call of a package-level function is a call of the generator: Do returns *)
(* at once and the cached error is nil.                                    *)
(***************************************************************************)
DefaultMaxClockBackward == Millisecond

DefaultConfig(w) ==
    [WorkerID |-> w, Epoch |-> Epoch, MaxClockBackward |-> DefaultMaxClockBackward,
     EnableMetrics |-> TRUE, Layout |-> LayoutDefault]

\* the mutant of OnceDo that does not make later callers wait for the first
OnceDoUnguarded(p) ==
    /\ pc[p] = "fresh"
    /\ pc' = [pc EXCEPT ![p] = IF defaultGeneratorOnce = "done"
                               THEN "checkErr"
                               ELSE "init"]
    /\ ret' = NoReturn
    /\ UNCHANGED <<cfgVars, mu, genVars, metricVars, ctxDone, doneAt, count, ids,
                   ghostVars, requested>>

\* defaultGeneratorOnce.Do(initDefaultGenerator): the first caller goes on to
\* run the function, a caller that arrives while it runs is blocked until it
\* has returned, a caller that arrives later returns at once
OnceDo(p) ==
    /\ pc[p] = "fresh"
    /\ defaultGeneratorOnce # "running"
    /\ IF defaultGeneratorOnce = "done"
       THEN /\ pc' = [pc EXCEPT ![p] = "checkErr"]
            /\ UNCHANGED defaultGeneratorOnce
       ELSE /\ pc' = [pc EXCEPT ![p] = "init"]
            /\ defaultGeneratorOnce' = "running"
    /\ ret' = NoReturn
    /\ UNCHANGED <<configVars, defaultGeneratorErr, initCalls, arg, mu, genVars, metricVars,
                   ctxDone, doneAt, count, ids, ghostVars, requested>>

\* initDefaultGenerator: defaultGenerator, defaultGeneratorErr = New(0), and
\* the return of Do
initDefaultGenerator(p) ==
    LET cfg == DefaultConfig(0)
        v == Validate(cfg.Layout, cfg.WorkerID, cfg.Epoch, cfg.MaxClockBackward)
    IN  /\ pc[p] = "init"
        /\ layout' = v.Layout
        /\ epoch' = cfg.Epoch
        /\ maxClockBackward' = cfg.MaxClockBackward
        /\ enableMetrics' = cfg.EnableMetrics
        /\ workerID' = [g \in Callers |-> cfg.WorkerID]
        /\ lastTimestamp' = [lastTimestamp EXCEPT ![1] = 0]
        /\ sequence' = [sequence EXCEPT ![1] = 0]
        /\ generated' = [generated EXCEPT ![1] = 0]
        /\ clockBackward' = [clockBackward EXCEPT ![1] = 0]
        /\ clockBackwardErr' = [clockBackwardErr EXCEPT ![1] = 0]
        /\ sequenceOverflow' = [sequenceOverflow EXCEPT ![1] = 0]
        /\ defaultGeneratorErr' = v.err
        /\ initCalls' = initCalls + 1
        /\ defaultGeneratorOnce' = "done"
        /\ pc' = [pc EXCEPT ![p] = "checkErr"]
        /\ ret' = NoReturn
        /\ UNCHANGED <<shared, arg, mu, ctxDone, doneAt, count, ids, ghostVars, requested>>

\* GenerateID after Do: the cached error is returned with no identifier, or
\* the call goes on in the default generator
DefaultCheck(p) ==
    /\ pc[p] = "checkErr"
    /\ IF defaultGeneratorErr # Nil
       THEN /\ pc' = [pc EXCEPT ![p] = "fresh"]
            /\ ret' = [caller |-> p, status |-> defaultGeneratorErr, ids |-> <<>>]
       ELSE /\ pc' = [pc EXCEPT ![p] = "idle"]
            /\ ret' = NoReturn
    /\ UNCHANGED <<cfgVars, mu, genVars, metricVars, ctxDone, doneAt, count, ids,
                   ghostVars, requested>>

\* before the first use of the package-level functions; the configuration
\* variables already hold what New(0) will pass
InitPackage ==
    /\ layout = DefaultConfig(0).Layout
    /\ epoch = DefaultConfig(0).Epoch
    /\ maxClockBackward = DefaultConfig(0).MaxClockBackward
    /\ enableMetrics = DefaultConfig(0).EnableMetrics
    /\ workerID = [g \in Callers |-> DefaultConfig(0).WorkerID]
    /\ shared = TRUE
    /\ InitGenerator
    /\ pc = [p \in Callers |-> "fresh"]

\* concurrent callers of the package-level single emission
NextPackage ==
    \E p \in Callers :
        OnceDo(p) \/ initDefaultGenerator(p) \/ DefaultCheck(p) \/ SingleStep(p)

SpecPackage == InitPackage /\ [][NextPackage]_vars

(***************************************************************************)
(* The encodings.  An encoding call has no generator: every caller stays   *)
(* at "new".                                                               *)
(***************************************************************************)
\* the encoder of codec c applied to the identifier arg.word
EncodeID(c) ==
    /\ arg.codec = "none"
    /\ arg' = [codec |-> c, word |-> arg.word, text |-> Encode(c, arg.word)]
    /\ ret' = NoReturn
    /\ UNCHANGED <<configVars, defaultVars, mu, genVars, metricVars, pc, ctxDone, doneAt,
                   count, ids, ghostVars, requested>>

\* the decoder of the codec arg.codec applied to the string arg.text
Parse ==
    /\ arg.codec # "none"
    /\ ret = NoReturn
    /\ ret' = [caller |-> 0,
               status |-> Decode(arg.codec, arg.text).err,
               ids |-> <<Decode(arg.codec, arg.text).value>>]
    /\ UNCHANGED <<cfgVars, mu, genVars, metricVars, pc, ctxDone, doneAt, count, ids,
                   ghostVars, requested>>

\* no generator: the configuration variables hold DefaultConfig(0)
InitNoGenerator ==
    /\ layout = DefaultConfig(0).Layout
    /\ epoch = DefaultConfig(0).Epoch
    /\ maxClockBackward = DefaultConfig(0).MaxClockBackward
    /\ enableMetrics = DefaultConfig(0).EnableMetrics
    /\ workerID = [g \in Callers |-> DefaultConfig(0).WorkerID]
    /\ shared = TRUE
    /\ defaultGeneratorOnce = "fresh"
    /\ defaultGeneratorErr = Nil
    /\ initCalls = 0
    /\ InitCalls
    /\ pc = [p \in Callers |-> "new"]

\* every word, to be encoded by any codec and decoded again
InitCodec ==
    /\ InitNoGenerator
    /\ arg \in [codec : {"none"}, word : -SignBit .. MaxInt, text : {<<>>}]

NextCodec == (\E c \in Codecs : EncodeID(c)) \/ Parse

SpecCodec == InitCodec /\ [][NextCodec]_vars

\* the decoders of encoding.go
Decoders == {"Base32", "Base58", "Base62", "Hex"}

\* the characters of the strings given to a decoder: its alphabet (for the
\* hexadecimal one in both cases) and "!", which is in no alphabet
CharsIn(c) ==
    {33} \cup
    CASE c = "Base32" -> {encodeBase32Map[i] : i \in 1 .. Len(encodeBase32Map)}
      [] c = "Base58" -> {encodeBase58Map[i] : i \in 1 .. Len(encodeBase58Map)}
      [] c = "Base62" -> {encodeBase62Map[i] : i \in 1 .. Len(encodeBase62Map)}
      [] c = "Hex" -> {encodeHexMap[i] : i \in 1 .. Len(encodeHexMap)} \cup 65 .. 70

MaxLenOf(c) ==
    CASE c = "Base32" -> MaxBase32Len
      [] c = "Base58" -> MaxBase58Len
      [] c = "Base62" -> MaxBase62Len
      [] c = "Hex" -> MaxHexLen

\* every string up to the longest one the decoder admits, and some that are
\* one character longer
TextsIn(c) ==
    UNION {[1 .. n -> CharsIn(c)] : n \in 0 .. MaxLenOf(c)}
    \cup [1 .. MaxLenOf(c) + 1 -> {33, 49, 97}]

InitParse ==
    /\ InitNoGenerator
    /\ \E c \in Decoders : \E s \in TextsIn(c) :
           arg = [codec |-> c, word |-> 0, text |-> s]

SpecParse == InitParse /\ [][Parse]_vars

\* single emission by concurrent callers, no context is ever canceled
NextSingle == \E p \in Callers : SingleStep(p)

SpecSingle == Init /\ [][NextSingle]_vars

\* single emission by concurrent callers whose contexts may be canceled
NextSingleCancel ==
    \E p \in Callers : SingleStep(p) \/ SingleCancelStep(p) \/ Cancel(p)

SpecSingleCancel == Init /\ [][NextSingleCancel]_vars

\* a generator with the default layout
InitDefault == Init /\ layout = LayoutDefault

\* batch emission by concurrent callers on a generator with the default
\* layout, no context is ever canceled
NextBatch == \E p \in Callers : BatchStep(p)

SpecBatch == InitDefault /\ [][NextBatch]_vars

\* a generator with the default layout: caller 1 uses every emission operation
\* and caller 2 single emission, which it can start only while a batch of
\* caller 1 has released the mutex for its drift sleep
NextMixed ==
    \/ SingleStep(1) \/ SingleCancelStep(1)
    \/ BatchStep(1) \/ BatchCancelStep(1)
    \/ SingleStep(2) \/ SingleCancelStep(2)
    \/ \E p \in Callers : Cancel(p)

SpecMixed == InitDefault /\ [][NextMixed]_vars

\* single and batch emission, no context is ever canceled
NextWorkers == \E p \in Callers : SingleStep(p) \/ BatchStep(p)

\* two generators with the same layout, epoch and tolerance, one caller each:
\* worker 0 and the first worker past the range of the default layout, or
\* worker 1 under the default layout
InitWorkers ==
    /\ InitConfig
    /\ shared = FALSE
    /\ epoch = 1
    /\ maxClockBackward = Millisecond
    /\ workerID[1] = 0
    /\ workerID[2] = IF ValidateWorkerID(layout, MaxWorkerID + 1)
                     THEN MaxWorkerID + 1
                     ELSE MaxWorkerID
    /\ InitState

SpecWorkers == InitWorkers /\ [][NextWorkers]_vars

\* one generator with a tolerance that is not a whole number of the coarse
\* time units, single emission by concurrent callers, no context is canceled
InitDrift ==
    /\ layout \in PresetLayouts
    /\ epoch = 1
    /\ maxClockBackward = 2 * Millisecond
    /\ shared = TRUE
    /\ workerID = [g \in Callers |-> CalculateShifts(layout).maxWorker]
    /\ \A g \in Callers : ConfigValidate(layout, workerID[g], epoch, maxClockBackward)
    /\ InitState

SpecDrift == InitDrift /\ [][NextSingle]_vars

\* one generator with any preset layout, any worker id of the model within its
\* range and the package epoch or a later one: single emission by concurrent
\* callers, no context is canceled
InitEpochs ==
    /\ InitConfig
    /\ shared = TRUE
    /\ maxClockBackward = Millisecond
    /\ workerID[2] = workerID[1]
    /\ InitState

SpecEpochs == InitEpochs /\ [][NextSingle]_vars

\* one generator with the default layout, constructed from a Config with
\* EnableMetrics false: single emission by concurrent callers, no context is
\* canceled
InitMetricsOff ==
    /\ InitConfig
    /\ layout = LayoutDefault
    /\ shared = TRUE
    /\ epoch = Epoch
    /\ maxClockBackward = Millisecond
    /\ \A g \in Callers : workerID[g] = MaxWorkerID
    /\ enableMetrics = FALSE
    /\ InitCallers

SpecMetricsOff == InitMetricsOff /\ [][NextSingle]_vars


(***************************************************************************)
(* Properties.                                                             *)
(***************************************************************************)
StrictlyIncreasing(s) == \A i \in 1 .. Len(s) - 1 : s[i] < s[i + 1]

Distinct(s) == \A i, j \in 1 .. Len(s) : i < j => s[i] # s[j]

\* the timestamp field of the words of g has not overflowed its bit width
TimestampFits(g) == lastTimestamp[g] - customEpoch < Pow2(layout.TimestampBits)

\* no word of g has a timestamp outside its field: before the epoch, or past
\* the bit width
WordsFit(g) == \A i \in 1 .. Len(emitted[g]) : emitted[g][i] >= 0

\* C1: the words emitted by one generator, by single and batch emission under
\* any layout, interleaving, cancellation and clock, are strictly increasing in
\* the order of their emission (stated here for the behaviours in which every
\* timestamp fits its field, where C10 does not interfere).
C1_MonotonicEmission == WordsFit(1) => StrictlyIncreasing(emitted[1])

\* C2: for every preset layout, single emissions whose context is never
\* canceled yield strictly increasing words whatever the clock reads between
\* the calls, as long as the timestamp field has not overflowed.
C2_SingleStrictlyIncreasing ==
    \A g \in Callers : TimestampFits(g) => StrictlyIncreasing(emitted[g])

\* C2 witness: three words emitted, a regression slept off and a regression
\* that ended in ErrClockMovedBack, the timestamp field not overflowed.
C2_Witness ==
    /\ Len(emitted[1]) >= 3
    /\ clockBackward[1] >= 2
    /\ clockBackwardErr[1] = 1
    /\ ret.status = "ok"
    /\ TimestampFits(1)

\* C3: the words returned by the successful single emissions of concurrent
\* callers on one generator are pairwise distinct (stated here for the
\* behaviours in which every timestamp fits its field).
C3_SingleDistinct == WordsFit(1) => Distinct(emitted[1])

\* C4: the identifiers of all the batches of concurrent callers on one
\* default-layout generator are distinct, also when a batch releases the
\* mutex for its drift sleep, other callers emit, and it locks again.
C4_BatchDistinct ==
    layout = LayoutDefault =>
        \A i, j \in 1 .. Len(emitted[1]) : emitted[1][i] = emitted[1][j] => i = j

\* C4 witness: a batch of two has returned whose words have a word of another
\* batch between them: it slept off a regression after its first word,
\* the other caller emitted, and it locked again and composed its second word.
C4_Witness ==
    /\ layout = LayoutDefault
    /\ ret.status = "ok"
    /\ Len(ret.ids) = 2
    /\ clockBackward[1] >= 1
    /\ \E i \in 1 .. Len(emitted[1]) - 2 :
           /\ emitted[1][i] = ret.ids[1]
           /\ emitted[1][i + 1] \notin {ret.ids[1], ret.ids[2]}
           /\ emitted[1][i + 2] = ret.ids[2]

\* C5: generators with the same layout and epoch and distinct worker ids emit
\* no identifier in common, whatever their clocks read (stated here for the
\* behaviours in which every timestamp fits its field).
C5_WorkersDisjoint ==
    (workerID[1] # workerID[2] /\ WordsFit(1) /\ WordsFit(2)) =>
        \A i \in 1 .. Len(emitted[1]), j \in 1 .. Len(emitted[2]) :
            emitted[1][i] # emitted[2][j]


\* C6: when ctx is canceled while a single emission waits, in the drift sleep
\* or in the sleep of the sequence-overflow wait, the call returns
\* ErrContextCanceled and no identifier.
C6_CanceledInWait ==
    [][\A p \in Callers :
          (SingleDriftCancel(p) \/ \E now \in ClockReadings : SingleSeqSleepCancel(p, now))
              => ret'.status = ErrContextCanceled /\ ret'.ids = <<>>]_vars

Errors == {ErrContextCanceled, ErrClockMovedBack}

\* p's call returns in this step
Returns(p) == ret'.caller = p

C8_LastTimestampNeverDecreases ==
    [][\A g \in Callers : lastTimestamp'[g] >= lastTimestamp[g]]_vars

\* C9: after every emission, single or batch, sequence is within 0 and the
\* largest sequence number of the configured layout.
C9_SequenceInRange ==
    \A g \in Callers : emSeq[g] >= 0 /\ emSeq[g] <= maxSequence

\* C10: every word emitted by a generator with a validated configuration is
\* non-negative.
C10_SignBitClear ==
    \A g \in Callers :
        ConfigValidate(layout, workerID[g], epoch, maxClockBackward) =>
            \A i \in 1 .. Len(emitted[g]) : And64(emitted[g][i], -SignBit) = 0

\* p is in the wait of a single emission that wrapped the sequence to 0
InOverflowWait(p) == pc[p] \in {"sSeqSleep", "sSpin"}

InUnit(g, t) == Cardinality({i \in 1 .. Len(emTime[g]) : emTime[g][i] = t})

\* the callers of g that found the sequence numbers of time unit t used up and
\* wait for the next time unit
Waiting(g, t) ==
    {p \in Callers : /\ GenOf(p) = g
                     /\ pc[p] \in {"sSeqSleep", "sSpin", "bSpin"}
                     /\ lastTimestamp[g] = t}

\* C12: when more identifiers were requested from a generator in one time
\* unit than the sequence field of its layout can number (the words composed
\* in the unit and the requests waiting for the next one are more than
\* maxSequence + 1), sequenceOverflow has been incremented, and the words of
\* the generator are pairwise distinct (stated here for the behaviours in
\* which every timestamp fits its field).
C12_OverflowCounted ==
    \A g \in Callers :
        WordsFit(g) =>
            /\ Distinct(emitted[g])
            /\ \A t \in 0 .. MaxClock :
                   InUnit(g, t) + Cardinality(Waiting(g, t)) > maxSequence + 1
                       => sequenceOverflow[g] >= 1
\* the clock regression seen by a call that reads now, in microseconds: how
\* far now is behind the first millisecond of time unit lastTimestamp, the
\* earliest reading at which the last word can have been composed
Regression(g, now) ==
    (lastTimestamp[g] * Milliseconds(timeUnit) - now) * Millisecond

\* C13: under every layout, a single emission whose context is not canceled
\* and that finds the clock behind lastTimestamp by less than the tolerance
\* goes to sleep instead of returning ErrClockMovedBack, and when it wakes
\* with the clock at or past lastTimestamp it does not return an error.
C13_DriftRecovered ==
    [][\A p \in Callers : \A now \in ClockReadings :
          /\ (/\ GenerateWithContext(p, FALSE, now)
              /\ currentTimestamp(now) < lastTimestamp[GenOf(p)]
              /\ Regression(GenOf(p), now) < maxClockBackward)
                 => pc'[p] = "sDriftSleep"
          /\ (/\ SingleDriftWake(p, now)
              /\ currentTimestamp(now) >= lastTimestamp[GenOf(p)])
                 => ret'.status \in {"ok", "none"}]_vars
\* p's call reads now, finds the clock behind lastTimestamp and the
\* regression, even if measured from the first millisecond of time unit
\* lastTimestamp, above the tolerance
BeyondTolerance(p, now) ==
    /\ currentTimestamp(now) < lastTimestamp[GenOf(p)]
    /\ Regression(GenOf(p), now) > maxClockBackward

\* C14: an emission, single or in a batch, whose context is not canceled and
\* that finds the clock behind lastTimestamp by more than the tolerance
\* returns ErrClockMovedBack in the same step, without a sleep, and composes
\* no word.
C14_BeyondToleranceFails ==
    [][\A p \in Callers : \A now \in ClockReadings :
          (/\ GenerateWithContext(p, FALSE, now) \/ (BatchIter(p, now) /\ ~ctxDone[p])
           /\ BeyondTolerance(p, now))
              => /\ Returns(p)
                 /\ ret'.status = ErrClockMovedBack
                 /\ emitted' = emitted]_vars
\* p's call returns a word above every word its generator composed before
ReturnsLargest(p) ==
    /\ ret'.status = "ok"
    /\ \A i \in 1 .. Len(emitted[GenOf(p)]) : emitted[GenOf(p)][i] < ret'.ids[1]

BatchActs(p) ==
    /\ pc[p] \in {"bIter", "bDriftSleep", "bRelock", "bCancelRelock", "bSpin"}
    /\ pc'[p] # pc[p] \/ ids'[p] # ids[p]

\* the words composed by g in this step
Composed(g) == SubSeq(emitted'[g], Len(emitted[g]) + 1, Len(emitted'[g]))

\* C16: a batch call keeps every word it composes, in the order of
\* composition, and nothing else, and what it returns is what it kept: a
\* batch that fails returns the error with exactly the words it composed
\* before, and composes none in the failing step.
C16_PartialBatch ==
    [][\A p \in Callers :
          BatchActs(p) =>
              IF Returns(p)
              THEN /\ ret'.ids = ids[p] \o Composed(GenOf(p))
                   /\ ret'.status \in Errors => Composed(GenOf(p)) = <<>>
              ELSE ids'[p] = ids[p] \o Composed(GenOf(p))]_vars

\* C16 witness: a batch was canceled in its drift sleep after it had composed
\* a word, another caller composed a word meanwhile, and the batch has
\* returned ErrContextCanceled with its own word.
C16_Witness ==
    /\ ret.status = ErrContextCanceled
    /\ Len(ret.ids) = 1
    /\ Len(emitted[1]) >= 2
    /\ emitted[1][Len(emitted[1]) - 1] = ret.ids[1]
    /\ emitted[1][Len(emitted[1])] # ret.ids[1]
\* C17: every call that returns adds to generated the number of identifiers
\* it returns, a batch that returns an error with a partial result included,
\* so that generated is the number of identifiers handed back whenever no
\* call is in progress.
C17_GeneratedCountsReturned ==
    [][\A p \in Callers :
          Returns(p) =>
              generated'[GenOf(p)] = generated[GenOf(p)] + Len(ret'.ids)]_vars
\* p's batch call has the mutex and has not run an iteration yet, and its
\* context is canceled
CanceledBeforeFirst(p) ==
    /\ pc[p] = "bIter"
    /\ ids[p] = <<>>
    /\ ctxDone[p]

\* C18: a batch call for n > 0 identifiers whose context is canceled before
\* its first iteration returns ErrContextCanceled with fewer than n
\* identifiers (with none), and composes no word.
C18_PreCanceledBatch ==
    [][\A p \in Callers :
          (CanceledBeforeFirst(p) /\ BatchActs(p)) =>
              /\ Returns(p)
              /\ ret'.status = ErrContextCanceled
              /\ Len(ret'.ids) < count[p]
              /\ emitted' = emitted]_vars

\* C18 witness: a generator that has emitted before has been called for a
\* batch of MaxCount with a context that is canceled already.
C18_Witness ==
    /\ CanceledBeforeFirst(1)
    /\ count[1] = MaxCount
    /\ mu[1] = 1
    /\ Len(emitted[1]) >= 1
\* p is in a batch call
InBatch(p) == pc[p] \in {"bIter", "bDriftSleep", "bRelock", "bCancelRelock", "bSpin"}

\* the last n words composed by g
LastWords(g, n) == SubSeq(emitted[g], Len(emitted[g]) - n + 1, Len(emitted[g]))

\* C19: a batch call holds the mutex of its generator from its start until
\* it returns, so that the words it has composed so far are the last words
\* its generator composed: no word of another call lies between or after
\* them.
C19_BatchHoldsMutex ==
    \A p \in Callers :
        InBatch(p) =>
            /\ mu[GenOf(p)] = p
            /\ Len(ids[p]) <= Len(emitted[GenOf(p)])
            /\ ids[p] = LastWords(GenOf(p), Len(ids[p]))
\* the fields of word id under the layout of the generator are those of g:
\* its worker id and its sequence, which is within the layout's range
FieldsOf(g, id) ==
    /\ WorkerWithLayout(id, layout) = workerID[g]
    /\ SequenceWithLayout(id, layout) = sequence'[g]
    /\ sequence'[g] >= 0
    /\ sequence'[g] <= maxSequence

\* C20: under every preset layout, every word composed, by batch emission as
\* by single emission, decomposes under the layout of the generator to the
\* configured worker id and to the sequence of the generator, which is
\* within 0 and the largest sequence number of the layout.
C20_BatchUsesLayout ==
    [][\A g \in Callers :
          \A i \in 1 .. Len(Composed(g)) : FieldsOf(g, Composed(g)[i])]_vars
\* the i-th word of g was composed in a time unit at or after the epoch whose
\* distance from the epoch fits the timestamp field
InRange(g, i) ==
    /\ emTime[g][i] >= customEpoch
    /\ emTime[g][i] - customEpoch < Pow2(layout.TimestampBits)

\* C21: under every preset layout, worker id and epoch, a word of single
\* emission decomposes under the layout to a timestamp in milliseconds at or
\* after the configured epoch, to the configured worker id and to a
\* sequence within the layout's range (stated for the words whose time unit
\* is at or after the epoch and fits the timestamp field).
C21_SingleRoundTrip ==
    \A g \in Callers : \A i \in 1 .. Len(emitted[g]) :
        InRange(g, i) =>
            /\ TimestampWithLayout(emitted[g][i], layout) >= epoch
            /\ WorkerWithLayout(emitted[g][i], layout) = workerID[g]
            /\ SequenceWithLayout(emitted[g][i], layout) >= 0
            /\ SequenceWithLayout(emitted[g][i], layout) <= maxSequence

\* the Config after Validate has defaulted its layout
Defaulted == Validate(layout, workerID[1], epoch, maxClockBackward).Layout

\* every field of the Config other than the worker id is valid
OthersValid ==
    /\ BitLayoutValidate(Defaulted) = Nil
    /\ epoch > 0
    /\ maxClockBackward >= 0

Constructed == \A p \in Callers : pc[p] \notin {"new", "failed", "panic"}

Failed == \A p \in Callers : pc[p] = "failed"

\* C22: with every other field of the configuration valid, construction
\* succeeds if and only if the worker id is between 0 and the largest worker
\* id of the (defaulted) layout; otherwise it fails with a ConfigError whose
\* field is the worker id, and no generator is returned
C22_WorkerFits ==
    (~Unconstructed /\ OthersValid) =>
        IF 0 <= workerID[1] /\ workerID[1] <= CalculateShifts(Defaulted).maxWorker
        THEN Constructed
        ELSE Failed /\ ret.status = ConfigErrorWorkerID

\* C23: construction with a layout that fails layout validation returns a
\* ConfigError (the structured error with field, value, reason and
\* constraint, as for an invalid worker id), and no generator
C23_LayoutConfigError ==
    (~Unconstructed /\ BitLayoutValidate(Defaulted) # Nil) =>
        Failed /\ ret.status \in ConfigErrors

\* the words composed so far decompose under l to worker id w
DecomposeTo(l, w) ==
    \A i \in 1 .. Len(emitted[1]) : WorkerWithLayout(emitted[1][i], l) = w

\* C24: a generator constructed from a configuration whose layout has no bit
\* field set behaves as one configured with the default layout: with the other
\* fields valid, exactly the worker ids 0 .. MaxWorkerID are accepted, the
\* generator has the default layout, and every word it emits decomposes under
\* the default layout to the configured worker id
C24_ZeroLayoutIsDefault ==
    /\ (~Unconstructed /\ epoch > 0 /\ maxClockBackward >= 0) =>
          (Constructed <=> (0 <= workerID[1] /\ workerID[1] <= MaxWorkerID))
    /\ Constructed =>
          /\ layout = LayoutDefault
          /\ DecomposeTo(LayoutDefault, workerID[1])

C24_Witness ==
    /\ Constructed
    /\ layout = LayoutDefault
    /\ workerID[1] = MaxWorkerID
    /\ Len(emitted[1]) = MaxEmit
    /\ DecomposeTo(LayoutDefault, MaxWorkerID)

\* the validator has returned its verdict on the layout
Validated == Unconstructed /\ ret # NoReturn

\* C25: layout validation returns nil if and only if the three bit fields sum
\* to the usable bits of the word, each of them is within its range, and the
\* time unit is positive; every other layout is rejected
C25_ValidatorComplete ==
    Validated =>
        /\ ret.status \in {Nil, ErrInvalidBitLayout}
        /\ ret.status = Nil <=>
              /\ layout.TimestampBits + layout.WorkerBits + layout.SequenceBits
                    = UsableBits
              /\ layout.TimestampBits \in MinTimestampBits .. MaxTimestampBits
              /\ layout.WorkerBits \in MinWorkerBits .. MaxWorkerBits
              /\ layout.SequenceBits \in MinSequenceBits .. MaxSequenceBits
              /\ layout.TimeUnit > 0

\* a layout with every bit field at the end of its range is accepted, and so
\* is one with a time unit below a millisecond
C25_Witness ==
    /\ Validated
    /\ ret.status = Nil
    /\ layout.WorkerBits = MaxWorkerBits
    /\ layout.TimeUnit < Millisecond

\* p has passed defaultGeneratorOnce.Do
PastDo(p) == pc[p] \notin {"fresh", "init"}

\* C26: whatever number of callers make their first use of the package-level
\* emission functions concurrently, initDefaultGenerator runs once and no
\* caller passes Do before it has run; if it has cached an error, every call
\* that returns returns that error and no identifier
C26_InitializedOnce ==
    /\ initCalls <= 1
    /\ \A p \in Callers : PastDo(p) => initCalls = 1 /\ defaultGeneratorOnce = "done"
    /\ (defaultGeneratorErr # Nil /\ ret.caller # 0) =>
          ret.status = defaultGeneratorErr /\ ret.ids = <<>>

\* every caller has passed Do, one of them has run initDefaultGenerator, and
\* the default generator has emitted
C26_Witness ==
    /\ initCalls = 1
    /\ defaultGeneratorErr = Nil
    /\ \A p \in Callers : PastDo(p)
    /\ Len(emitted[1]) = MaxEmit

\* C27: when the generator was configured with EnableMetrics false, no step
\* of an emission operation changes a metric counter
C27_MetricsOff ==
    [][~enableMetrics => UNCHANGED metricVars]_vars

\* the decoder has returned
Decoded == arg.codec # "none" /\ ret # NoReturn

\* C28: for every codec and every non-negative word, decoding the encoding
\* of the word returns the word, and no error
C28_RoundTrip ==
    (Decoded /\ arg.codec \in Codecs /\ arg.word >= 0
        /\ arg.text = Encode(arg.codec, arg.word)) =>
        /\ ret.status = Nil
        /\ ret.ids = <<arg.word>>

\* the largest word has made the round trip through a codec whose loop runs
\* more than once
C28_Witness ==
    /\ Decoded
    /\ arg.codec = "Base58"
    /\ arg.word = MaxInt
    /\ arg.text = Encode("Base58", MaxInt)
    /\ Len(arg.text) = MaxBase58Len
    /\ ret.ids = <<MaxInt>>

\* the alphabet of a Base64 codec
AlphabetOf(c) == IF c = "Base64URL" THEN encodeURL ELSE encodeStd

\* C29: the Base64 and Base64URL encodings of an identifier are the padded
\* encodings of its big-endian bytes, and the decoders take the bytes they
\* decode as the big-endian word
C29_Base64OfBigEndian ==
    (Decoded /\ arg.codec \in {"Base64", "Base64URL"} /\ arg.word >= 0) =>
        /\ arg.text = EncodeToString(IntBytes(arg.word), AlphabetOf(arg.codec))
        /\ ret.status = Nil
        /\ ret.ids = <<Wrap(BigEndianUint(
                            DecodeString(arg.text, AlphabetOf(arg.codec)).bytes))>>

\* the digits of the string given to a decoder, and its base
DigitsOf(c, str) ==
    [i \in 1 .. Len(str) |->
        CASE c = "Base32" -> decodeBase32Map(str[i])
          [] c = "Base58" -> decodeBase58Map(str[i])
          [] c = "Base62" -> decodeBase62Map(str[i])
          [] c = "Hex" -> decodeHexMap(str[i])]

BaseOf(c) ==
    CASE c = "Base32" -> 32
      [] c = "Base58" -> 58
      [] c = "Base62" -> 62
      [] c = "Hex" -> 16

\* the number the digits stand for, however large
RECURSIVE NumericValue(_, _)
NumericValue(digits, base) ==
    IF digits = <<>> THEN 0
    ELSE NumericValue(SubSeq(digits, 1, Len(digits) - 1), base) * base
            + digits[Len(digits)]

\* C30: the Base32, Base58, Base62 and Hex decoders reject every string
\* whose numeric value exceeds the largest word with ErrIntegerOverflow or
\* ErrStringTooLong, and whatever the string they return without an error is
\* not negative and is the numeric value of the string, not a wrapped one
C30_DecodersRejectOverflow ==
    (Decoded /\ arg.codec \in Decoders) =>
        LET digits == DigitsOf(arg.codec, arg.text)
            valid == \A i \in 1 .. Len(digits) : digits[i] # Invalid
        IN  /\ (valid /\ NumericValue(digits, BaseOf(arg.codec)) > MaxInt) =>
                  ret.status \in {ErrIntegerOverflow, ErrStringTooLong}
            /\ ret.status = Nil =>
                  /\ ret.ids[1] >= 0
                  /\ valid
                  /\ ret.ids[1] = NumericValue(digits, BaseOf(arg.codec))

(***************************************************************************)
(* The error of a clock regression.                                        *)
(***************************************************************************)
\* the fields of ClockError
ClockErrorFields ==
    {"CurrentTimestamp", "LastTimestamp", "DriftMilliseconds",
     "ToleranceMilliseconds", "WorkerID", "Recovered"}

\* C31: every clock-regression failure an emission operation returns, single
\* or batch, is a structured error with the current and the last time unit,
\* their difference as the drift, the tolerance, the worker id and a recovered
\* flag that is false
C31_StructuredClockError ==
    ret.status = ErrClockMovedBack =>
        LET g == GenOf(ret.caller)
            e == ret.err
        IN  /\ DOMAIN e = ClockErrorFields
            /\ e.LastTimestamp = lastTimestamp[g]
            /\ e.CurrentTimestamp < e.LastTimestamp
            /\ e.DriftMilliseconds = e.LastTimestamp - e.CurrentTimestamp
            /\ e.ToleranceMilliseconds = Milliseconds(maxClockBackward)
            /\ e.WorkerID = workerID[g]
            /\ e.Recovered = FALSE

(***************************************************************************)
(* The order of the pairs (lastTimestamp, sequence) of the emitted words.  *)
(***************************************************************************)
\* g has composed a word in this step
Emits(g) == emitted'[g] # emitted[g]

\* C32: each emitted identifier is one of two transitions from the pair of the
\* identifier emitted before it: the same time unit with the sequence one
\* higher and not wrapped, or a later time unit with sequence 0
C32_TwoTransitions ==
    [][\A g \in Callers :
          Emits(g) =>
             \/ /\ emLast'[g] = emLast[g]
                /\ emSeq'[g] = emSeq[g] + 1
                /\ emSeq'[g] <= maxSequence
             \/ /\ emLast'[g] > emLast[g]
                /\ emSeq'[g] = 0]_vars

(***************************************************************************)
(* Cancellation in the polling loop of the sequence-overflow wait.         *)
(***************************************************************************)
\* p polls the clock in the loop of the sequence-overflow wait
Spinning(p) == pc[p] \in {"sSpin", "bSpin"}

\* C33: when the context of a call is canceled while the call is in the
\* polling loop of the sequence-overflow wait, the call leaves the loop by
\* returning ErrContextCanceled
C33_SpinCanceled ==
    [][\A p \in Callers :
          (Spinning(p) /\ ctxDone[p] /\ pc'[p] # pc[p]) =>
             Returns(p) /\ ret'.status = ErrContextCanceled]_vars

(***************************************************************************)
(* The clock failure and the tolerance.                                    *)
(***************************************************************************)
\* the drift of the clock error e, which is in time units, is beyond its
\* tolerance, which is in milliseconds
DriftBeyondTolerance(e) ==
    e.DriftMilliseconds * Milliseconds(timeUnit) > e.ToleranceMilliseconds

\* C34: an emission returns the clock failure only if the drift it observed
\* exceeded the tolerance: a structured clock error never reports a drift
\* within the tolerance
C34_OnlyBeyondTolerance ==
    (ret.status = ErrClockMovedBack /\ DOMAIN ret.err = ClockErrorFields) =>
        DriftBeyondTolerance(ret.err)

(***************************************************************************)
(* The recovery sleep of both paths.                                       *)
(***************************************************************************)
\* p's step has read the clock below lastTimestamp of its generator
Regressed(p) ==
    /\ clockBackward'[GenOf(p)] # clockBackward[GenOf(p)]
    /\ pc'[p] # pc[p] \/ Returns(p)

\* p sleeps to let the clock catch up
DriftSleeping(p) == pc[p] \in {"sDriftSleep", "bDriftSleep"}

\* C35: in the single and in the batch path, under every layout, a call that
\* reads a regressed clock sleeps exactly when the drift in time units is at
\* most the tolerance converted to time units
C35_SleepWhenWithinScaledTolerance ==
    [][\A p \in Callers :
          Regressed(p) =>
             \E now \in ClockReadings :
                LET diff == lastTimestamp[GenOf(p)] - currentTimestamp(now)
                IN  /\ diff > 0
                    /\ DriftSleeping(p)' <=>
                          diff <= Milliseconds(maxClockBackward)
                                     \div Milliseconds(timeUnit)]_vars

(***************************************************************************)
(* The counters of the clock regressions.                                  *)
(***************************************************************************)
\* p's step starts an emission attempt whose reading of the clock is below
\* lastTimestamp: the attempt goes to its recovery sleep or fails at once
ReadsRegression(p) ==
    /\ pc[p] \in {"idle", "bIter"}
    /\ \/ DriftSleeping(p)'
       \/ Returns(p) /\ ret'.status = ErrClockMovedBack

\* p's step returns the clock failure
ReturnsClockError(p) == Returns(p) /\ ret'.status = ErrClockMovedBack

\* the callers of generator g for which P holds
CallersOf(g, P(_)) == {p \in Callers : GenOf(p) = g /\ P(p)}

\* C36: clockBackward goes up by exactly one for each emission attempt that
\* reads the clock below lastTimestamp and clockBackwardErr by exactly one for
\* each return of the clock failure, and by nothing else, so that
\* clockBackwardErr never exceeds clockBackward
C36_ClockCounters ==
    [][\A g \in Callers :
          /\ clockBackward'[g] =
                clockBackward[g] + Cardinality(CallersOf(g, ReadsRegression))
          /\ clockBackwardErr'[g] =
                clockBackwardErr[g] + Cardinality(CallersOf(g, ReturnsClockError))
          /\ clockBackwardErr'[g] <= clockBackward'[g]]_vars

\* a batch has failed on the clock after an earlier regression was slept off
C36_Witness ==
    /\ clockBackward[1] = 2
    /\ clockBackwardErr[1] = 1
    /\ ret.status = ErrClockMovedBack
    /\ Len(ret.ids) = 1

(***************************************************************************)
(* The mutex.                                                              *)
(***************************************************************************)
\* the positions of a call at which it holds the mutex of its generator
HoldsMutex(p) == pc[p] \in {"sDriftSleep", "sSeqSleep", "sSpin", "bIter", "bSpin"}

\* p has taken a step of its call
Steps(p) == pc'[p] # pc[p] \/ Returns(p)

\* C37: on every return path of every emission operation the mutex ends up
\* released, also after a cancellation during the drift sleep of a batch, for
\* which the batch had released it; it is unlocked only by the call that holds
\* it, taken only when free, and never left held by a call that is over
C37_MutexDiscipline ==
    [][\A p \in Callers :
          LET g == GenOf(p)
          IN  /\ (mu'[g] = p) <=> HoldsMutex(p)'
              /\ Returns(p) => mu[g] \in {p, Free} /\ mu'[g] = Free
              /\ (mu[g] = p /\ mu'[g] # p) => mu'[g] = Free /\ Steps(p)
              /\ (mu[g] # p /\ mu'[g] = p) => mu[g] = Free]_vars

\* the batch of caller 1 was canceled in its drift sleep, during which caller 2
\* took the mutex and emitted; it has taken the mutex again and has returned:
\* the mutex is free
C37_Witness ==
    /\ ret.caller = 1
    /\ ret.status = ErrContextCanceled
    /\ Len(ret.ids) = 1
    /\ Len(emitted[1]) = 2
    /\ emitted[1][1] = ret.ids[1]
    /\ generated[1] = 1
    /\ \A p \in Callers : pc[p] = "idle" /\ mu[GenOf(p)] = Free

(***************************************************************************)
(* The cancellation poll of the batch loop.                                *)
(***************************************************************************)
\* batch emission by one caller on a generator with the default layout, for
\* counts that reach past the second poll; the context may be canceled before
\* or during the call
NextPoll ==
    \/ \E n \in 1 .. MaxCount + 1, done \in BOOLEAN : GenerateBatch(1, n, done)
    \/ \E now \in ClockReadings : BatchIter(1, now)
    \/ BatchDriftWake(1)
    \/ \E now \in ClockReadings : BatchRelock(1, now)
    \/ \E now \in ClockReadings : BatchSpin(1, now)
    \/ BatchDriftCancel(1)
    \/ BatchCancelRelock(1)
    \/ Cancel(1)

SpecPoll == InitDefault /\ [][NextPoll]_vars

\* the identifiers p's batch holds after this step, or returns with it
Appended(p) == IF Returns(p) THEN Len(ret'.ids) ELSE Len(ids'[p])

\* p's batch has taken a step
BatchSteps(p) == pc'[p] # pc[p] \/ ids'[p] # ids[p] \/ Returns(p)

\* p's batch is at the start of an iteration whose index is polled
AtPoll(p) == pc[p] = "bIter" /\ Len(ids[p]) % PollInterval = 0

\* a batch whose context is canceled returns ErrContextCanceled, with the
\* identifiers it has, at the next polled index it reaches
PollReturns(p) ==
    (ctxDone[p] /\ AtPoll(p) /\ BatchSteps(p)) =>
        /\ Returns(p)
        /\ ret'.status = ErrContextCanceled
        /\ ret'.ids = ids[p]

\* C38 as stated: the batch polls ctx at every index divisible by PollInterval,
\* so after the cancellation it appends fewer than PollInterval further
\* identifiers
C38_FewerThanInterval ==
    [][\A p \in Callers :
          /\ PollReturns(p)
          /\ ctxDone[p] => Appended(p) - doneAt[p] < PollInterval]_vars

\* C38, amended: the batch polls ctx at every index divisible by PollInterval
\* and returns ErrContextCanceled at the next such index it reaches after the
\* cancellation, so after the cancellation it appends at most PollInterval
\* further identifiers: those of the iteration in progress and of the
\* PollInterval - 1 iterations up to the next poll
C38_AtMostInterval ==
    [][\A p \in Callers :
          /\ PollReturns(p)
          /\ ctxDone[p] => Appended(p) - doneAt[p] <= PollInterval]_vars

\* a batch of three whose context was canceled after the poll of index 0 and
\* before the first identifier has appended PollInterval identifiers since and
\* is at its next poll
C38_Witness ==
    /\ ctxDone[1]
    /\ doneAt[1] = 0
    /\ count[1] = MaxCount + 1
    /\ Len(ids[1]) = PollInterval
    /\ AtPoll(1)

(***************************************************************************)
(* Termination.  The timers of the runtime fire, so a sleep ends; a        *)
(* goroutine that can run is scheduled, so a loop iterates, and it finds   *)
(* the clock past lastTimestamp if the clock can read so; sync.Mutex hands *)
(* the mutex to a goroutine that has waited for it (starvation mode), so a *)
(* batch that finds the mutex free again and again gets it.                *)
(***************************************************************************)
\* a generator with the default layout and a tolerance of one millisecond
InitLive == InitDefault /\ maxClockBackward = Millisecond

\* caller 1 uses single and batch emission and caller 2 single emission, which
\* it can start only while a batch of caller 1 has released the mutex for its
\* drift sleep; no context is ever canceled
NextLive == SingleStep(1) \/ BatchStep(1) \/ SingleStep(2)

\* the steps that go on with a single emission of p once it has started
SingleContinues(p) ==
    \/ \E now \in ClockReadings : SingleDriftWake(p, now)
    \/ SingleSeqSleepDone(p)
    \/ \E now \in ClockReadings : SingleSpin(p, now)

\* the steps that go on with a batch of p while it holds the mutex or sleeps
BatchContinues(p) ==
    \/ \E now \in ClockReadings : BatchIter(p, now)
    \/ BatchDriftWake(p)
    \/ \E now \in ClockReadings : BatchSpin(p, now)

\* fair scheduling: a call that can go on does, and a batch that waits for the
\* mutex gets it if it is free again and again
Fairness ==
    /\ \A p \in Callers : WF_vars(SingleContinues(p))
    /\ WF_vars(BatchContinues(1))
    /\ SF_vars(\E now \in ClockReadings : BatchRelock(1, now))

SpecLive == InitLive /\ [][NextLive]_vars /\ Fairness

\* p's call polls a clock that can read no time unit past lastTimestamp
ClockStuck(p) ==
    /\ Spinning(p)
    /\ \A now \in ClockReadings : currentTimestamp(now) <= lastTimestamp[GenOf(p)]

\* C39: under fair scheduling every emission call that has started returns,
\* unless it polls a clock that can read no time unit past lastTimestamp: the
\* drift sleep and the sequence-overflow wait end and a batch that waits for
\* the mutex after its drift sleep gets it
C39_EveryCallReturns ==
    \A p \in Callers : (pc[p] # "idle") ~> (pc[p] = "idle" \/ ClockStuck(p))

\* the batch of caller 1 waits for the mutex, which caller 2 holds in its
\* drift sleep
C39_Witness ==
    /\ pc[1] = "bRelock"
    /\ pc[2] = "sDriftSleep"
    /\ mu[GenOf(1)] = 2

(***************************************************************************)
(* The arithmetic of the time unit.                                        *)
(***************************************************************************)
\* C40: for every Config that validation accepts, whatever positive time unit
\* its layout has, construction completes normally: NewWithConfig never ends
\* in an arithmetic fault such as a division by zero
C40_NoArithmeticFault ==
    /\ ret.status # PanicDivideByZero
    /\ \A p \in Callers : pc[p] # "panic"

=============================================================================
